---- MODULE Spec2Model ----
(***************************************************************************)
(* svelte-reactive-table: the reactive table state, the table             *)
(* orchestrator (ReactiveTable), the optimistic update manager and the    *)
(* realtime sync coordinator, as state machines.                          *)
(*                                                                         *)
(* Each component has its own variables and its own specification; a      *)
(* specification leaves the other components' variables unchanged.        *)
(*   SpecState   ReactiveTableState driven synchronously                  *)
(*   SpecTable   ReactiveTable: async CRUD calls, realtime events, destroy*)
(*   SpecOpt     OptimisticUpdateManager: caller operations and timers    *)
(*   SpecOptLive OptimisticUpdateManager: updates left to their timers    *)
(*   SpecSync    RealtimeSync: optimistic queue, remote events, sync runs *)
(*   SpecForce   RealtimeSync: forcSync among updates, events and syncs   *)
(*   SpecView    ReactiveTableState: filtered, sorted and paginated views *)
(*   SpecScroll  VirtualScrollManager: the rendered window                 *)
(*   SpecLife    ReactiveTable: connect, disconnect, destroy, cell editing *)
(*   SpecFilter  filter evaluation: state filters and AdvancedFilterManager*)
(*   SpecEngine  TableEngine: queued validation and processData            *)
(*   SpecConflict RealtimeSync: conflicts queued and resolved by hand      *)
(*   SpecMerge   the merge functions of the manager and the coordinator    *)
(*   SpecDebounce RealtimeSync: bursts of updates and the debounce timer   *)
(*   SpecScrollTo VirtualScrollManager: scrollToIndex among the scrolls     *)
(*   SpecRetry   RealtimeSync: sync runs that fail and are retried          *)
(*   SpecCreate  ReactiveTable: optimistic creates in flight together       *)
(*   SpecQueue   RealtimeSync: the queue under updates, events, conflicts   *)
(*   SpecDestroy RealtimeSync: destroy among updates and sync runs          *)
(*   SpecRefresh ReactiveTable: refresh against the in-memory adapter       *)
(***************************************************************************)
EXTENDS Integers, Sequences, FiniteSets, TLC

VARIABLES
    \* ReactiveTableState
    data, loading, error, connected, filters, sorts, selectedRows,
    currentPage, pageSize,
    \* ReactiveTable
    destroyed, subscribed, optimistic, calls, events, now, serverSeq,
    \* OptimisticUpdateManager
    upd, pending, failed, conflicted, synced, syncing, timers,
    totalOperations, nextId, retriesMade,
    \* RealtimeSync
    pendingUpdates, conflicts, sync, syncRun, discarded,
    \* VirtualScrollManager
    scrollConfig, scrollState,
    \* ReactiveTable: the unsubscribe handle, cell editing, and the calls
    \* made to the adapter's disconnect and to the subscription's unsubscribe
    unsubscribeAdapter, editingCell, disconnectCalls, unsubscribeCalls,
    \* AdvancedFilterManager
    globalFilters,
    \* TableEngine: the task queue, the processing flag, the statistics, and
    \* the number of setTimeout(() => this.processQueue(), 0) callbacks due
    \* processRun is the position of a processData call in flight.
    processingQueue, isProcessing, stats, queueTimers, processRun,
    \* config.conflictResolution of the manager / the coordinator
    conflictResolution,
    \* MemoryAdapter: the rows the adapter holds
    adapterData,
    \* the operation that produced the current state
    last

stateVars == <<data, loading, error, connected, filters, sorts, selectedRows,
               currentPage, pageSize>>
tableVars == <<destroyed, subscribed, optimistic, calls, events, now, serverSeq>>
optVars   == <<upd, pending, failed, conflicted, synced, syncing, timers,
               totalOperations, nextId, retriesMade>>
syncVars  == <<pendingUpdates, conflicts, sync, syncRun, discarded>>
scrollVars == <<scrollConfig, scrollState>>
lifeVars  == <<unsubscribeAdapter, editingCell, disconnectCalls, unsubscribeCalls>>
advVars   == <<globalFilters>>
engineVars == <<processingQueue, isProcessing, stats, queueTimers, processRun>>
vars      == <<stateVars, tableVars, optVars, syncVars, scrollVars, lifeVars,
               advVars, engineVars, conflictResolution, adapterData, last>>

(***************************************************************************)
(* Bounds                                                                  *)
(***************************************************************************)
MaxRows    == 2      \* longest data array
MaxFilters == 1      \* longest filter list handed to the state
MaxPage    == 2      \* largest page index / page size a caller passes

RowIds   == {"r1", "r2"}
Vals     == {1, 2}
Rows     == [id : RowIds, val : Vals]
NoError  == "null"

(***************************************************************************)
(* Generic helpers                                                         *)
(***************************************************************************)
Max(a, b) == IF a > b THEN a ELSE b
Min(a, b) == IF a < b THEN a ELSE b
Abs(a)    == IF a < 0 THEN -a ELSE a
\* Math.ceil(a / b) for a >= 0, b > 0
CeilDiv(a, b) == (a + b - 1) \div b

\* { ...a, ...b }
Spread(a, b) ==
    [k \in (DOMAIN a) \cup (DOMAIN b) |-> IF k \in DOMAIN b THEN b[k] ELSE a[k]]

\* s.splice(i, 1)
Splice(s, i) == [j \in 1..(Len(s) - 1) |-> IF j < i THEN s[j] ELSE s[j + 1]]

\* Array.prototype.findIndex, 1-based; 0 when nothing matches
FindIndex(s, P(_)) ==
    IF \E i \in DOMAIN s : P(s[i])
    THEN CHOOSE i \in DOMAIN s : P(s[i]) /\ \A j \in 1..(i - 1) : ~P(s[j])
    ELSE 0

\* row[column]: <<v>> when the row has the column, <<>> (undefined) otherwise
Cell(row, column) == IF column \in DOMAIN row THEN <<row[column]>> ELSE <<>>

\* Strings are sequences of one-character strings.
DigitChars == <<"0", "1", "2", "3", "4", "5", "6", "7", "8", "9">>

\* String(n) for a number n >= 0
RECURSIVE Digits(_)
Digits(n) ==
    IF n < 10 THEN <<DigitChars[n + 1]>>
    ELSE Digits(n \div 10) \o <<DigitChars[(n % 10) + 1]>>

\* String(value) for a cell value
StringOf(value) ==
    IF value = <<>> THEN <<"u", "n", "d", "e", "f", "i", "n", "e", "d">>
    ELSE Digits(value[1])

\* String.prototype.includes / startsWith / endsWith
Includes(s, sub) ==
    \E i \in 0..(Len(s) - Len(sub)) : SubSeq(s, i + 1, i + Len(sub)) = sub

StartsWith(s, sub) ==
    Len(sub) <= Len(s) /\ SubSeq(s, 1, Len(sub)) = sub

EndsWith(s, sub) ==
    Len(sub) <= Len(s) /\ SubSeq(s, Len(s) - Len(sub) + 1, Len(s)) = sub

(***************************************************************************)
(* ReactiveTableState: derived views                                       *)
(***************************************************************************)
\* the filters callers hand to the state: a known operator and an unknown one
FilterOps == {"greater_than", "bogus"}
Filters   == [column : {"val"}, operator : FilterOps, value : {1}]

\* Number(undefined) is NaN and every comparison with NaN is false;
\* String(undefined) is "undefined".  Filter values are numbers, so
\* Array.isArray(filterValue) is false.  toLowerCase leaves the strings the
\* model forms (digits and "undefined") as they are.
matchesFilter(value, filter) ==
    CASE filter.operator = "equals"       -> value = <<filter.value>>
      [] filter.operator = "not_equals"   -> value # <<filter.value>>
      [] filter.operator = "contains"     ->
            Includes(StringOf(value), Digits(filter.value))
      [] filter.operator = "not_contains" ->
            ~Includes(StringOf(value), Digits(filter.value))
      [] filter.operator = "starts_with"  ->
            StartsWith(StringOf(value), Digits(filter.value))
      [] filter.operator = "ends_with"    ->
            EndsWith(StringOf(value), Digits(filter.value))
      [] filter.operator = "greater_than" -> value # <<>> /\ value[1] > filter.value
      [] filter.operator = "less_than"    -> value # <<>> /\ value[1] < filter.value
      [] filter.operator = "greater_equal" -> value # <<>> /\ value[1] >= filter.value
      [] filter.operator = "less_equal"   -> value # <<>> /\ value[1] <= filter.value
      [] filter.operator = "in"           -> FALSE
      [] filter.operator = "not_in"       -> FALSE
      [] filter.operator = "is_null"      -> value = <<>>
      [] filter.operator = "is_not_null"  -> value # <<>>
      [] OTHER                            -> TRUE

applyFilters(d, fs) ==
    SelectSeq(d, LAMBDA row :
        \A i \in DOMAIN fs : matchesFilter(Cell(row, fs[i].column), fs[i]))

filteredData == IF Len(filters) = 0 THEN data ELSE applyFilters(data, filters)

\* a page count that rounds down instead of up
totalPagesFloor(n, size) == n \div size

\* Math.ceil(filteredData.length / pageSize)
totalPagesOf(n, size) == (n + size - 1) \div size

totalPages == totalPagesOf(Len(filteredData), pageSize)

hasNextPage == currentPage < totalPages - 1

hasPreviousPage == currentPage > 0

(***************************************************************************)
(* ReactiveTableState: data manipulation, as functions of the data array   *)
(***************************************************************************)
addRow(d, row) == Append(d, row)

addRows(d, rows) == d \o rows

updateRow(d, id, updates) ==
    LET index == FindIndex(d, LAMBDA row : row.id = id)
    IN  IF index > 0
        THEN [d EXCEPT ![index] = Spread(d[index], updates)]
        ELSE d

removeRow(d, id) == SelectSeq(d, LAMBDA row : row.id # id)

hasRow(d, id) == \E i \in DOMAIN d : d[i].id = id

\* <<row>> for the first row with the id, <<>> (undefined) when there is none
getRow(d, id) ==
    LET index == FindIndex(d, LAMBDA row : row.id = id)
    IN  IF index > 0 THEN <<d[index]>> ELSE <<>>

(***************************************************************************)
(* ReactiveTableState: selection, as functions of the selection set        *)
(***************************************************************************)
selectRow(sel, id) == sel \cup {id}

deselectRow(sel, id) == sel \ {id}

selectRows(sel, ids) == ids

selectAll(sel, d) == {d[i].id : i \in DOMAIN d}

toggleRowSelection(sel, id) ==
    IF id \in sel THEN deselectRow(sel, id) ELSE selectRow(sel, id)

(***************************************************************************)
(* Initial state: every component as its constructor leaves it             *)
(***************************************************************************)
\* last: the operation and what it reports; arg is always a record
Op(name, arg) == [op |-> name, arg |-> arg]

NoArg == [slot |-> 0]

DefaultPageSize == 20

\* new ReactiveTableState(options): pageSize = options.pageSize || 20
InitState(sizes) ==
    /\ data = <<>>
    /\ loading = FALSE
    /\ error = NoError
    /\ connected = FALSE
    /\ filters = <<>>
    /\ sorts = <<>>
    /\ selectedRows = {}
    /\ currentPage = 0
    /\ pageSize \in sizes

(***************************************************************************)
(* ReactiveTableState: one action per method                               *)
(***************************************************************************)
\* the datasets handed to setData / replaceData: ids unique within a dataset
DataSeqs ==
    {d \in UNION {[1..n -> Rows] : n \in 0..MaxRows} :
        \A i, j \in DOMAIN d : d[i].id = d[j].id => i = j}

FilterSeqs == UNION {[1..n -> Filters] : n \in 0..MaxFilters}

StateFrame ==
    UNCHANGED <<tableVars, optVars, syncVars, scrollVars, lifeVars,
                conflictResolution, adapterData, advVars,
                engineVars>>

State_setData ==
    \E newData \in DataSeqs :
        /\ data' = newData
        /\ last' = Op("setData", NoArg)
        /\ UNCHANGED <<loading, error, connected, filters, sorts, selectedRows,
                       currentPage, pageSize>>
        /\ StateFrame

State_replaceData ==
    \E newData \in DataSeqs :
        /\ data' = newData
        /\ last' = Op("replaceData", NoArg)
        /\ UNCHANGED <<loading, error, connected, filters, sorts, selectedRows,
                       currentPage, pageSize>>
        /\ StateFrame

State_addRow ==
    \E row \in Rows :
        /\ Len(data) < MaxRows
        /\ data' = addRow(data, row)
        /\ last' = Op("addRow", NoArg)
        /\ UNCHANGED <<loading, error, connected, filters, sorts, selectedRows,
                       currentPage, pageSize>>
        /\ StateFrame

State_updateRow ==
    \E id \in RowIds, v \in Vals :
        /\ data' = updateRow(data, id, [val |-> v])
        /\ last' = Op("updateRow", NoArg)
        /\ UNCHANGED <<loading, error, connected, filters, sorts, selectedRows,
                       currentPage, pageSize>>
        /\ StateFrame

State_removeRow ==
    \E id \in RowIds :
        /\ data' = removeRow(data, id)
        /\ last' = Op("removeRow", NoArg)
        /\ UNCHANGED <<loading, error, connected, filters, sorts, selectedRows,
                       currentPage, pageSize>>
        /\ StateFrame

SelectionFrame ==
    /\ UNCHANGED <<data, loading, error, connected, filters, sorts,
                   currentPage, pageSize>>
    /\ StateFrame

State_selectRow ==
    \E id \in RowIds :
        /\ selectedRows' = selectRow(selectedRows, id)
        /\ last' = Op("selectRow", NoArg)
        /\ SelectionFrame

State_deselectRow ==
    \E id \in RowIds :
        /\ selectedRows' = deselectRow(selectedRows, id)
        /\ last' = Op("deselectRow", NoArg)
        /\ SelectionFrame

State_selectRows ==
    \E ids \in SUBSET RowIds :
        /\ selectedRows' = selectRows(selectedRows, ids)
        /\ last' = Op("selectRows", NoArg)
        /\ SelectionFrame

State_selectAll ==
    /\ selectedRows' = selectAll(selectedRows, data)
    /\ last' = Op("selectAll", NoArg)
    /\ SelectionFrame

State_clearSelection ==
    /\ selectedRows' = {}
    /\ last' = Op("clearSelection", NoArg)
    /\ SelectionFrame

State_toggleRowSelection ==
    \E id \in RowIds :
        /\ selectedRows' = toggleRowSelection(selectedRows, id)
        /\ last' = Op("toggleRowSelection", NoArg)
        /\ SelectionFrame

PageFrame ==
    /\ UNCHANGED <<data, loading, error, connected, filters, sorts, selectedRows>>
    /\ StateFrame

\* a setPage that clamps the page into the range of pages
setPageClamped(page) == Max(0, Min(page, totalPages - 1))

setPage(page) ==
    IF page >= 0 /\ page < totalPages THEN page ELSE currentPage

State_setPage ==
    \E page \in (0 - 1)..MaxPage :
        /\ currentPage' = setPage(page)
        /\ last' = Op("setPage", [page |-> page])
        /\ UNCHANGED pageSize
        /\ PageFrame

State_setPageSize ==
    \E size \in 0..MaxPage :
        /\ IF size > 0
           THEN pageSize' = size /\ currentPage' = 0
           ELSE UNCHANGED <<pageSize, currentPage>>
        /\ last' = Op("setPageSize", NoArg)
        /\ PageFrame

State_nextPage ==
    /\ currentPage' = IF hasNextPage THEN currentPage + 1 ELSE currentPage
    /\ last' = Op("nextPage", NoArg)
    /\ UNCHANGED pageSize
    /\ PageFrame

State_previousPage ==
    /\ currentPage' = IF hasPreviousPage THEN currentPage - 1 ELSE currentPage
    /\ last' = Op("previousPage", NoArg)
    /\ UNCHANGED pageSize
    /\ PageFrame

State_goToFirstPage ==
    /\ currentPage' = 0
    /\ last' = Op("goToFirstPage", NoArg)
    /\ UNCHANGED pageSize
    /\ PageFrame

State_goToLastPage ==
    /\ currentPage' = Max(0, totalPages - 1)
    /\ last' = Op("goToLastPage", NoArg)
    /\ UNCHANGED pageSize
    /\ PageFrame

FilterFrame ==
    /\ UNCHANGED <<data, loading, error, connected, sorts, selectedRows, pageSize>>
    /\ StateFrame

\* an addFilter that keeps the filter a column already has
addFilterFirstWins(fs, filter) ==
    IF \E i \in DOMAIN fs : fs[i].column = filter.column
    THEN fs
    ELSE Append(fs, filter)

addFilter(fs, filter) ==
    Append(SelectSeq(fs, LAMBDA f : f.column # filter.column), filter)

State_addFilter ==
    \E filter \in Filters :
        /\ filters' = addFilter(filters, filter)
        /\ currentPage' = 0
        /\ last' = Op("addFilter", NoArg)
        /\ FilterFrame

\* index is 0-based as in the source
State_removeFilter ==
    \E index \in 0..MaxFilters :
        /\ filters' = IF index < Len(filters) THEN Splice(filters, index + 1)
                      ELSE filters
        /\ currentPage' = 0
        /\ last' = Op("removeFilter", NoArg)
        /\ FilterFrame

State_updateFilter ==
    \E index \in 0..MaxFilters, filter \in Filters :
        /\ IF index < Len(filters)
           THEN filters' = [filters EXCEPT ![index + 1] = filter] /\ currentPage' = 0
           ELSE UNCHANGED <<filters, currentPage>>
        /\ last' = Op("updateFilter", NoArg)
        /\ FilterFrame

\* a clearFilters that also resets the selection
State_clearFiltersAndSelection ==
    /\ filters' = <<>>
    /\ currentPage' = 0
    /\ selectedRows' = {}
    /\ last' = Op("clearFilters", NoArg)
    /\ UNCHANGED <<data, loading, error, connected, sorts, pageSize>>
    /\ StateFrame

State_clearFilters ==
    /\ filters' = <<>>
    /\ currentPage' = 0
    /\ last' = Op("clearFilters", NoArg)
    /\ FilterFrame

State_setFilters ==
    \E newFilters \in FilterSeqs :
        /\ filters' = newFilters
        /\ currentPage' = 0
        /\ last' = Op("setFilters", NoArg)
        /\ FilterFrame

(***************************************************************************)
(* Filter evaluation: the state's filters and AdvancedFilterManager        *)
(*                                                                         *)
(* Rows carry a numeric age column; no row has the column "missing".       *)
(* Filter values are non-null numbers.  The operator names are those of    *)
(* the state's matchesFilter (snake_case), those of the FilterOperator     *)
(* type and of AdvancedFilterManager (camelCase), and one that neither     *)
(* knows.  The manager runs with its default config (no fuzzy matching,    *)
(* no regex support) and without filter groups or a search query.          *)
(***************************************************************************)
MaxAgeRows       == 3     \* longest data array of the filter views
MaxGlobalFilters == 1     \* most global filters held at once
FilterPageSize   == 2     \* pageSize option of the filter views

AgeRows     == {[id |-> "r1", age |-> 25], [id |-> "r2", age |-> 35],
                [id |-> "r3", age |-> 40]}
\* the datasets: each row at most once, in any order
AgeData     ==
    UNION {{d \in [1..n -> AgeRows] : \A i, j \in 1..n : d[i] = d[j] => i = j} :
           n \in 0..MaxAgeRows}
EvalColumns == {"age", "missing"}
EvalValues  == {30}

\* the cases of the switch in ReactiveTableState.matchesFilter
StateOperators ==
    {"equals", "not_equals", "contains", "not_contains", "starts_with",
     "ends_with", "greater_than", "less_than", "greater_equal", "less_equal",
     "in", "not_in", "is_null", "is_not_null"}

\* the FilterOperator type; the cases of the switch in evaluateFilter
FilterOperator ==
    {"equals", "notEquals", "contains", "notContains", "startsWith",
     "endsWith", "greaterThan", "lessThan", "greaterThanOrEqual",
     "lessThanOrEqual", "in", "notIn", "between", "isNull", "isNotNull",
     "isEmpty", "isNotEmpty", "regex"}

\* the operators the state's filters of the model are built with
StateEvalOps ==
    {"not_equals", "not_contains", "greater_than", "is_null",
     "greaterThan", "bogus"}

\* the operators the manager's filters of the model are built with
AdvEvalOps == {"notEquals", "notContains", "greaterThan", "isNull", "bogus"}

StateEvalFilters ==
    [column : EvalColumns, operator : StateEvalOps, value : EvalValues]

AdvEvalFilters ==
    [column : EvalColumns, operator : AdvEvalOps, value : EvalValues]

InitAdv == globalFilters = <<>>

\* a - b for two numbers
compareNumerically(a, b) == a - b

\* normalizeValue leaves numbers as they are; contains, startsWith and
\* endsWith require two strings
compareValues(fieldValue, filterValue, operator) ==
    CASE operator = "equals"             -> fieldValue = filterValue
      [] operator = "contains"           -> FALSE
      [] operator = "startsWith"         -> FALSE
      [] operator = "endsWith"           -> FALSE
      [] operator = "greaterThan"        ->
            compareNumerically(fieldValue, filterValue) > 0
      [] operator = "greaterThanOrEqual" ->
            compareNumerically(fieldValue, filterValue) >= 0
      [] operator = "lessThan"           ->
            compareNumerically(fieldValue, filterValue) < 0
      [] operator = "lessThanOrEqual"    ->
            compareNumerically(fieldValue, filterValue) <= 0
      [] OTHER                           -> FALSE

\* getFieldValue(row, column) is Cell(row, column); fieldValue == null is
\* an absent column
evaluateFilter(row, filter) ==
    LET fieldValue == Cell(row, filter.column)
        op         == filter.operator
    IN  IF fieldValue = <<>>
        THEN op = "isNull"
        ELSE CASE op = "equals"      -> compareValues(fieldValue[1], filter.value, "equals")
               [] op = "notEquals"   -> ~compareValues(fieldValue[1], filter.value, "equals")
               [] op = "contains"    -> compareValues(fieldValue[1], filter.value, "contains")
               [] op = "notContains" -> ~compareValues(fieldValue[1], filter.value, "contains")
               [] op = "startsWith"  -> compareValues(fieldValue[1], filter.value, "startsWith")
               [] op = "endsWith"    -> compareValues(fieldValue[1], filter.value, "endsWith")
               [] op = "greaterThan" -> compareValues(fieldValue[1], filter.value, "greaterThan")
               [] op = "greaterThanOrEqual" ->
                     compareValues(fieldValue[1], filter.value, "greaterThanOrEqual")
               [] op = "lessThan"    -> compareValues(fieldValue[1], filter.value, "lessThan")
               [] op = "lessThanOrEqual" ->
                     compareValues(fieldValue[1], filter.value, "lessThanOrEqual")
               [] op = "in"          -> FALSE
               [] op = "notIn"       -> FALSE
               [] op = "between"     -> FALSE
               [] op = "isNull"      -> FALSE
               [] op = "isNotNull"   -> TRUE
               [] op = "isEmpty"     -> FALSE
               [] op = "isNotEmpty"  -> TRUE
               [] op = "regex"       -> FALSE
               [] OTHER              -> FALSE

\* evaluateFilters(row, filters, 'and')
evaluateFilters(row, fs) ==
    IF Len(fs) = 0 THEN TRUE
    ELSE \A i \in DOMAIN fs : evaluateFilter(row, fs[i])

\* filterData(data)
filterData(d) ==
    IF Len(globalFilters) > 0
    THEN SelectSeq(d, LAMBDA row : evaluateFilters(row, globalFilters))
    ELSE d

AdvFrame ==
    UNCHANGED <<stateVars, tableVars, optVars, syncVars, scrollVars, lifeVars,
                engineVars, conflictResolution, adapterData>>

addGlobalFilter ==
    /\ Len(globalFilters) < MaxGlobalFilters
    /\ \E filter \in AdvEvalFilters :
        /\ globalFilters' = Append(globalFilters, filter)
        /\ last' = Op("addGlobalFilter", [filter |-> filter])
    /\ AdvFrame

\* index counts from 0; splice past the end removes nothing
removeGlobalFilter ==
    \E index \in 0..MaxGlobalFilters :
        /\ globalFilters' = IF index < Len(globalFilters)
                            THEN Splice(globalFilters, index + 1)
                            ELSE globalFilters
        /\ last' = Op("removeGlobalFilter", [index |-> index])
        /\ AdvFrame

clearGlobalFilters ==
    /\ globalFilters' = <<>>
    /\ last' = Op("clearGlobalFilters", NoArg)
    /\ AdvFrame

\* ReactiveTable.setFilter(filter): this._state.addFilter(filter)
Table_setFilter ==
    \E filter \in StateEvalFilters :
        /\ filters' = addFilter(filters, filter)
        /\ currentPage' = 0
        /\ last' = Op("setFilter",
                       [filter   |-> filter,
                        replaced |-> \E i \in DOMAIN filters :
                                        filters[i].column = filter.column,
                        page     |-> currentPage])
        /\ FilterFrame

(***************************************************************************)
(* TableEngine                                                             *)
(*                                                                         *)
(* The engine validates state.data.  The schema of the model has no        *)
(* columns with formats or rules and no schema-level validation, so        *)
(* applySchemaValidation, transformData and calculateDerivedValues         *)
(* complete without changing anything.  An async method that throws        *)
(* returns a rejected promise.  processData runs from its call to its      *)
(* first await (processData) and then to its end (processDataSettles);     *)
(* processQueue is the callback of the zero-delay timer.                   *)
(***************************************************************************)
MaxEngineRows == 2     \* longest data array the engine validates
MaxTasks      == 2     \* most tasks queued at once
MaxRuns       == 2     \* most processData runs counted in stats

\* rows with an id, and a row without one
EngineRows == {[id |-> "r1", val |-> 1], [id |-> "r2", val |-> 1], [val |-> 1]}
EngineData == UNION {[1..n -> EngineRows] : n \in 0..MaxEngineRows}

\* new MemoryAdapter(): the rows are handed over later
InitMemory == adapterData = <<>>

InitEngine ==
    /\ processingQueue = <<>>
    /\ isProcessing = FALSE
    /\ stats = [totalProcessed |-> 0, errorsCount |-> 0]
    /\ queueTimers = 0
    /\ processRun = "idle"

\* "throws" when a row has no id or two rows have the same id, "returns"
\* otherwise
validateDataStructure(d) ==
    IF \E i \in DOMAIN d :
          \/ Cell(d[i], "id") = <<>>
          \/ \E j \in DOMAIN d : j # i /\ Cell(d[j], "id") = Cell(d[i], "id")
    THEN "throws"
    ELSE "returns"

\* the promise of processTask(task)
processTask(task, d) ==
    CASE task = "data_validation" ->
            IF validateDataStructure(d) = "throws" THEN "rejected" ELSE "resolved"
      [] task = "schema_validation" -> "resolved"
      [] task = "data_transformation" -> "resolved"
      [] task = "derived_calculation" -> "resolved"
      [] OTHER -> "resolved"

\* the steps of the try block of processData
ProcessSteps ==
    <<"validateDataStructure", "applySchemaValidation", "transformData",
      "calculateDerivedValues">>

\* the steps of processData that are entered over data d
stepsRun(d) ==
    IF validateDataStructure(d) = "throws"
    THEN SubSeq(ProcessSteps, 1, 1)
    ELSE ProcessSteps

\* queueProcessing(type): every task has priority 0 and the sort is stable
queueProcessing(queue, type) == Append(queue, type)

EngineFrame ==
    UNCHANGED <<stateVars, tableVars, optVars, syncVars, scrollVars, lifeVars,
                advVars, conflictResolution, adapterData>>

\* triggerDataValidation(), with processQueueIfReady arming the timer
triggerDataValidation ==
    /\ IF ~isProcessing
       THEN /\ Len(processingQueue) < MaxTasks
            /\ queueTimers < MaxTasks
            /\ processingQueue' = queueProcessing(processingQueue, "data_validation")
            /\ queueTimers' = queueTimers + 1
       ELSE UNCHANGED <<processingQueue, queueTimers>>
    /\ last' = Op("triggerDataValidation", [queued |-> ~isProcessing])
    /\ UNCHANGED <<isProcessing, stats, processRun>>
    /\ EngineFrame

\* the timer fires: processQueue()
processQueue ==
    /\ queueTimers > 0
    /\ queueTimers' = queueTimers - 1
    /\ IF Len(processingQueue) = 0
       THEN /\ UNCHANGED processingQueue
            /\ last' = Op("processQueue",
                          [task |-> "none", violation |-> FALSE,
                           promise |-> "resolved",
                           errorsBefore |-> stats.errorsCount])
       ELSE /\ processingQueue' = Tail(processingQueue)
            /\ last' = Op("processQueue",
                          [task |-> Head(processingQueue),
                           violation |-> validateDataStructure(data) = "throws",
                           promise |-> processTask(Head(processingQueue), data),
                           errorsBefore |-> stats.errorsCount])
    /\ UNCHANGED <<isProcessing, stats, processRun>>
    /\ EngineFrame

\* processData(), up to the await of validateDataStructure
processData ==
    /\ processRun = "idle"
    /\ stats.totalProcessed + stats.errorsCount < MaxRuns
    /\ isProcessing' = TRUE
    /\ processRun' = IF validateDataStructure(data) = "throws"
                     THEN "caught" ELSE "validated"
    /\ last' = Op("processData", NoArg)
    /\ UNCHANGED <<processingQueue, stats, queueTimers>>
    /\ EngineFrame

\* processData(), the rest: the remaining steps and updateProcessingStats, or
\* the catch block; then the finally block
processDataSettles ==
    /\ processRun # "idle"
    /\ stats' = IF processRun = "caught"
                THEN [stats EXCEPT !.errorsCount = @ + 1]
                ELSE [stats EXCEPT !.totalProcessed = @ + 1]
    /\ isProcessing' = FALSE
    /\ processRun' = "idle"
    /\ last' = Op("processData.settled",
                  [violation |-> processRun = "caught",
                   promise |-> "resolved",
                   steps |-> Len(stepsRun(data)),
                   errorsBefore |-> stats.errorsCount])
    /\ UNCHANGED <<processingQueue, queueTimers>>
    /\ EngineFrame

\* TableEngine.destroy()
Engine_destroy ==
    /\ processingQueue' = <<>>
    /\ isProcessing' = FALSE
    /\ last' = Op("engine.destroy", NoArg)
    /\ UNCHANGED <<stats, queueTimers, processRun>>
    /\ EngineFrame

(***************************************************************************)
(* OptimisticUpdateManager                                                 *)
(*                                                                         *)
(* An update object is upd[u]; the buckets are arrays of references to     *)
(* update objects, so a bucket is a sequence of update ids and one object  *)
(* may be referenced from several places.  generateUpdateId is taken to    *)
(* return a fresh id on every call.  timers[u] is the live timer the       *)
(* retryTimers map holds for u.  retriesMade[u] counts the retries of u    *)
(* that were carried out: the firings of the timer scheduleRetry arms.     *)
(***************************************************************************)
MaxUpdates        == 1    \* updates ever added
MaxBucket         == 2    \* longest bucket a caller operation may extend
maxPendingUpdates == 1    \* config.maxPendingUpdates the manager is built with
maxRetries        == 3    \* config.maxRetries
retryFailedUpdates == TRUE
retryDelay        == 1000 \* config.retryDelay, in ms

UpdIds     == 1..MaxUpdates
Strategies == {"last-write-wins", "first-write-wins", "manual", "merge"}
NoUpdate   == [type |-> "none", status |-> "none", retryCount |-> 0,
               error |-> "undefined", original |-> FALSE, remote |-> FALSE,
               data |-> "none"]

InitOpt ==
    /\ upd = [u \in UpdIds |-> NoUpdate]
    /\ pending = <<>>
    /\ failed = <<>>
    /\ conflicted = <<>>
    /\ synced = <<>>
    /\ syncing = {}
    /\ timers = [u \in UpdIds |-> "none"]
    /\ totalOperations = 0
    /\ nextId = 1
    /\ retriesMade = [u \in UpdIds |-> 0]

InSeq(s, u) == \E i \in DOMAIN s : s[i] = u

\* findUpdate: the update is looked for in pending, failed, conflicted, synced
findUpdate(u) ==
    InSeq(pending, u) \/ InSeq(failed, u) \/ InSeq(conflicted, u) \/ InSeq(synced, u)

\* the source array of moveUpdate after the move: first occurrence spliced out
moveFrom(from, u) ==
    LET index == FindIndex(from, LAMBDA x : x = u)
    IN  IF index > 0 THEN Splice(from, index) ELSE from

\* a moveUpdate that forgets to push onto its target array
moveToDropped(to, u) == to

\* the target array of moveUpdate after the move
moveTo(to, u) == Append(to, u)

OptFrame ==
    UNCHANGED <<stateVars, tableVars, syncVars, scrollVars, lifeVars,
                conflictResolution, adapterData, advVars,
                engineVars>>

\* addUpdate(type, data, originalData); the configuration has enabled = true
\* an addUpdate that counts the operation before it checks the limit
addUpdateCountsFirst ==
    \E type \in {"update"}, original \in BOOLEAN :
        /\ IF Len(pending) >= maxPendingUpdates
           THEN /\ totalOperations' = totalOperations + 1
                /\ last' = Op("addUpdate.throws", NoArg)
                /\ UNCHANGED <<upd, pending, failed, conflicted, synced,
                               syncing, timers, nextId, retriesMade>>
           ELSE /\ nextId <= MaxUpdates
                /\ upd' = [upd EXCEPT ![nextId] =
                        [type |-> type, status |-> "pending", retryCount |-> 0,
                         error |-> "undefined", original |-> original,
                         remote |-> FALSE, data |-> "local"]]
                /\ pending' = Append(pending, nextId)
                /\ totalOperations' = totalOperations + 1
                /\ timers' = [timers EXCEPT ![nextId] = "timeout"]
                /\ nextId' = nextId + 1
                /\ last' = Op("addUpdate", NoArg)
                /\ UNCHANGED <<failed, conflicted, synced, syncing, retriesMade>>
        /\ OptFrame

addUpdate ==
    \E type \in {"update"}, original \in BOOLEAN :
        /\ IF Len(pending) >= maxPendingUpdates
           THEN /\ last' = Op("addUpdate.throws", NoArg)
                /\ UNCHANGED optVars
           ELSE /\ nextId <= MaxUpdates
                /\ upd' = [upd EXCEPT ![nextId] =
                        [type |-> type, status |-> "pending", retryCount |-> 0,
                         error |-> "undefined", original |-> original,
                         remote |-> FALSE, data |-> "local"]]
                /\ pending' = Append(pending, nextId)
                /\ totalOperations' = totalOperations + 1
                /\ timers' = [timers EXCEPT ![nextId] = "timeout"]
                /\ nextId' = nextId + 1
                /\ last' = Op("addUpdate", NoArg)
                /\ UNCHANGED <<failed, conflicted, synced, syncing, retriesMade>>
        /\ OptFrame

markAsSyncing ==
    \E u \in UpdIds :
        /\ findUpdate(u)
        /\ upd' = [upd EXCEPT ![u].status = "syncing"]
        /\ syncing' = syncing \cup {u}
        /\ last' = Op("markAsSyncing", NoArg)
        /\ UNCHANGED <<pending, failed, conflicted, synced, timers,
                       totalOperations, nextId, retriesMade>>
        /\ OptFrame

\* the body of markAsSynced(u) once findUpdate has found u
markAsSyncedBody(u) ==
    /\ upd' = [upd EXCEPT ![u].status = "synced"]
    /\ syncing' = syncing \ {u}
    /\ pending' = moveFrom(pending, u)
    /\ synced' = moveTo(synced, u)
    /\ timers' = [timers EXCEPT ![u] = "none"]
    /\ UNCHANGED <<failed, conflicted, totalOperations, nextId, retriesMade>>

markAsSynced ==
    \E u \in UpdIds :
        /\ findUpdate(u)
        /\ Len(synced) < MaxBucket
        /\ markAsSyncedBody(u)
        /\ last' = Op("markAsSynced", NoArg)
        /\ OptFrame

\* scheduleRetry is taken when retries are configured and retryCount < maxRetries
retryAllowed(u) == retryFailedUpdates /\ upd[u].retryCount < maxRetries

\* scheduleRetry: the delay of the timer, from the retryCount it has just
\* incremented
retryDelayOf(retryCount) == retryDelay * 2 ^ (retryCount - 1)

\* the delay of the retry that markAsFailed(u) schedules; 0 when it schedules
\* none
scheduledDelay(u) ==
    IF retryAllowed(u) THEN retryDelayOf(upd[u].retryCount + 1) ELSE 0

\* the body of markAsFailed(u, err) once findUpdate has found u
markAsFailedBody(u, err) ==
    /\ syncing' = syncing \ {u}
    /\ IF retryAllowed(u)
       THEN /\ upd' = [upd EXCEPT ![u].status = "failed", ![u].error = err,
                                  ![u].retryCount = @ + 1]
            /\ timers' = [timers EXCEPT ![u] = "retry"]
            /\ UNCHANGED <<pending, failed>>
       ELSE /\ upd' = [upd EXCEPT ![u].status = "failed", ![u].error = err]
            /\ timers' = [timers EXCEPT ![u] = "none"]
            /\ pending' = moveFrom(pending, u)
            /\ failed' = moveTo(failed, u)
    /\ UNCHANGED <<conflicted, synced, totalOperations, nextId, retriesMade>>

markAsFailed ==
    \E u \in UpdIds, err \in {"undefined", "network"} :
        /\ findUpdate(u)
        /\ Len(failed) < MaxBucket
        /\ markAsFailedBody(u, err)
        /\ last' = Op("markAsFailed", [uid |-> u, delay |-> scheduledDelay(u)])
        /\ OptFrame

markAsConflicted ==
    \E u \in UpdIds, remoteData \in BOOLEAN :
        /\ findUpdate(u)
        /\ Len(conflicted) < MaxBucket
        /\ upd' = [upd EXCEPT ![u].status = "conflicted",
                              ![u].remote = IF remoteData THEN TRUE ELSE @]
        /\ syncing' = syncing \ {u}
        /\ pending' = moveFrom(pending, u)
        /\ conflicted' = moveTo(conflicted, u)
        /\ timers' = [timers EXCEPT ![u] = "none"]
        /\ last' = Op("markAsConflicted", NoArg)
        /\ UNCHANGED <<failed, synced, totalOperations, nextId, retriesMade>>
        /\ OptFrame

\* removeUpdate: filtered out of every array, timers cleared
rollbackUpdate ==
    \E u \in UpdIds :
        /\ findUpdate(u)
        /\ upd[u].original
        /\ pending' = SelectSeq(pending, LAMBDA x : x # u)
        /\ failed' = SelectSeq(failed, LAMBDA x : x # u)
        /\ conflicted' = SelectSeq(conflicted, LAMBDA x : x # u)
        /\ synced' = SelectSeq(synced, LAMBDA x : x # u)
        /\ syncing' = syncing \ {u}
        /\ timers' = [timers EXCEPT ![u] = "none"]
        /\ last' = Op("rollbackUpdate", NoArg)
        /\ UNCHANGED <<upd, totalOperations, nextId, retriesMade>>
        /\ OptFrame

\* the data a resolution leaves in the update
resolvedData(u, resolution) ==
    CASE resolution = "local"  -> upd[u].data
      [] resolution = "remote" -> IF upd[u].remote THEN "remote" ELSE upd[u].data
      [] OTHER                 -> "merged"

resolveConflict ==
    \E u \in UpdIds, resolution \in {"local", "remote", "merged"} :
        /\ InSeq(conflicted, u)
        /\ Len(pending) < MaxBucket
        /\ upd' = [upd EXCEPT ![u].data = resolvedData(u, resolution),
                              ![u].status = "pending"]
        /\ conflicted' = moveFrom(conflicted, u)
        /\ pending' = moveTo(pending, u)
        /\ last' = Op("resolveConflict", NoArg)
        /\ UNCHANGED <<failed, synced, syncing, timers, totalOperations, nextId, retriesMade>>
        /\ OptFrame

\* autoResolveConflicts walks a copy of the conflicted array; an entry is
\* resolved when it carries remote data and the strategy is not manual
autoResolves(u) == upd[u].remote /\ conflictResolution # "manual"

autoResolvedData(u) ==
    CASE conflictResolution = "last-write-wins"  -> "remote"
      [] conflictResolution = "first-write-wins" -> upd[u].data
      [] OTHER                                   -> "merged"

autoResolveConflicts ==
    /\ Len(pending) + Len(conflicted) <= MaxBucket
    /\ upd' = [u \in UpdIds |->
                 IF InSeq(conflicted, u) /\ autoResolves(u)
                 THEN [upd[u] EXCEPT !.data = autoResolvedData(u),
                                     !.status = "pending"]
                 ELSE upd[u]]
    /\ conflicted' = SelectSeq(conflicted, LAMBDA u : ~autoResolves(u))
    /\ pending' = pending \o SelectSeq(conflicted, autoResolves)
    /\ last' = Op("autoResolveConflicts", NoArg)
    /\ UNCHANGED <<failed, synced, syncing, timers, totalOperations, nextId, retriesMade>>
    /\ OptFrame

clearAll ==
    /\ pending' = <<>>
    /\ failed' = <<>>
    /\ conflicted' = <<>>
    /\ synced' = <<>>
    /\ syncing' = {}
    /\ timers' = [u \in UpdIds |-> "none"]
    /\ last' = Op("clearAll", NoArg)
    /\ UNCHANGED <<upd, totalOperations, nextId, retriesMade>>
    /\ OptFrame

\* the timer armed by setUpdateTimeout fires: markAsFailed(u, 'Update timeout')
timeoutFires ==
    \E u \in UpdIds :
        /\ timers[u] = "timeout"
        /\ findUpdate(u)
        /\ markAsFailedBody(u, "Update timeout")
        /\ last' = Op("timeoutFires", [uid |-> u, delay |-> scheduledDelay(u)])
        /\ OptFrame

\* the timer armed by scheduleRetry fires: back to pending, new timeout
retryFires ==
    \E u \in UpdIds :
        /\ timers[u] = "retry"
        /\ upd' = [upd EXCEPT ![u].status = "pending", ![u].error = "undefined"]
        /\ timers' = [timers EXCEPT ![u] = "timeout"]
        /\ retriesMade' = [retriesMade EXCEPT ![u] = @ + 1]
        /\ last' = Op("retryFires", NoArg)
        /\ UNCHANGED <<pending, failed, conflicted, synced, syncing,
                       totalOperations, nextId>>
        /\ OptFrame

NextOpt ==
    \/ addUpdate
    \/ markAsSyncing
    \/ markAsSynced
    \/ markAsFailed
    \/ markAsConflicted
    \/ rollbackUpdate
    \/ resolveConflict
    \/ autoResolveConflicts
    \/ clearAll
    \/ timeoutFires
    \/ retryFires

\* the caller adds updates and may mark them syncing, and otherwise leaves
\* them to their timers
NextOptLive ==
    \/ addUpdate
    \/ markAsSyncing
    \/ timeoutFires
    \/ retryFires

(***************************************************************************)
(* ReactiveTable (the orchestrator)                                        *)
(*                                                                         *)
(* The adapter is the environment: a call made to it is outstanding until  *)
(* the adapter rejects it, or performs it (AdapterCommits, which may put   *)
(* the adapter's realtime event for the change on the wire) and the        *)
(* promise then resolves.  events is the wire from the adapter to the      *)
(* subscription callback, delivered in order.  now is Date.now().          *)
(***************************************************************************)
MaxCalls   == 1    \* calls that may be awaiting the adapter at once
MaxEvents  == 1    \* realtime events on the wire
MaxClock   == 1    \* Date.now() takes the values 0..MaxClock
MaxCreates == 1    \* rows the adapter creates

Slots    == 1..MaxCalls
TempIds  == {"temp_0", "temp_1", "temp_2"}
NewIds   == {"n1", "n2", "n3"}
TempId(t) == CASE t = 0 -> "temp_0" [] t = 1 -> "temp_1" [] OTHER -> "temp_2"
NewId(k)  == CASE k = 1 -> "n1" [] k = 2 -> "n2" [] OTHER -> "n3"

Row(id, v) == [id |-> id, val |-> v]

\* what adapter.read() may return
ReadResults == {<<Row("r1", 1)>>, <<Row("r1", 1), Row("r2", 2)>>}

IdleCall == [op |-> "none", pc |-> "idle", id |-> "", val |-> 0, temp |-> "",
             orig |-> <<>>, res |-> <<>>, before |-> <<>>, mid |-> <<>>]

\* new ReactiveTable(config): config.options.optimistic is one of flags
InitTable(flags) ==
    /\ destroyed = FALSE
    /\ subscribed = TRUE
    /\ optimistic \in flags
    /\ calls = [c \in Slots |-> IdleCall]
    /\ events = <<>>
    /\ now = 0
    /\ serverSeq = 0

\* a table with optimistic updates whose callers make up to MaxCreateCalls
\* calls at once
MaxCreateCalls == 2

InitTableCalls ==
    /\ destroyed = FALSE
    /\ subscribed = TRUE
    /\ optimistic = TRUE
    /\ calls = [c \in 1..MaxCreateCalls |-> IdleCall]
    /\ events = <<>>
    /\ now = 0
    /\ serverSeq = 0

TableFrame ==
    UNCHANGED <<optVars, syncVars, scrollVars, lifeVars, conflictResolution, adapterData, advVars,
                engineVars>>

Event(type, rows) == [type |-> type, rows |-> rows]

RECURSIVE updateRows(_, _)
updateRows(d, rows) ==
    IF rows = <<>> THEN d
    ELSE updateRows(updateRow(d, Head(rows).id, Head(rows)), Tail(rows))

RECURSIVE removeRows(_, _)
removeRows(d, rows) ==
    IF rows = <<>> THEN d
    ELSE removeRows(removeRow(d, Head(rows).id), Tail(rows))

\* the subscription callback of setupRealtimeSync, past its destroyed check
onAdapterEvent(d, event) ==
    CASE event.type = "create"      -> addRows(d, event.rows)
      [] event.type = "update"      -> updateRows(d, event.rows)
      [] event.type = "delete"      -> removeRows(d, event.rows)
      [] event.type = "bulk_update" -> event.rows
      [] OTHER                      -> d

\* every row whose id starts with 'temp_' removed
removeTempRows(d) == SelectSeq(d, LAMBDA row : row.id \notin TempIds)

\* ReactiveTableState.destroy(): data, selection, filters and sorts are reset
stateDestroy ==
    /\ data' = <<>>
    /\ selectedRows' = {}
    /\ filters' = <<>>
    /\ sorts' = <<>>
    /\ UNCHANGED <<loading, error, connected, currentPage, pageSize>>

DataOnly == UNCHANGED <<loading, error, connected, filters, sorts, selectedRows,
                        currentPage, pageSize>>

Tick ==
    /\ now < MaxClock
    /\ now' = now + 1
    /\ last' = Op("tick", NoArg)
    /\ UNCHANGED <<stateVars, destroyed, subscribed, optimistic, calls, events,
                   serverSeq>>
    /\ TableFrame

\* a change made by another client reaches the wire
RemoteEvent ==
    \E type \in {"create", "update", "delete"}, id \in RowIds :
        /\ Len(events) < MaxEvents
        /\ events' = Append(events, Event(type, <<Row(id, 2)>>))
        /\ last' = Op("remoteEvent", [type |-> type])
        /\ UNCHANGED <<stateVars, destroyed, subscribed, optimistic, calls, now,
                       serverSeq>>
        /\ TableFrame

\* the adapter hands the next event to its listeners
DeliverEvent ==
    /\ events # <<>>
    /\ events' = Tail(events)
    /\ IF subscribed /\ ~destroyed
       THEN /\ Len(onAdapterEvent(data, Head(events))) <= MaxRows
            /\ data' = onAdapterEvent(data, Head(events))
       ELSE UNCHANGED data
    /\ DataOnly
    /\ last' = Op("deliverEvent", [type |-> Head(events).type])
    /\ UNCHANGED <<destroyed, subscribed, optimistic, calls, now, serverSeq>>
    /\ TableFrame

CallFrame == UNCHANGED <<destroyed, subscribed, optimistic, events, now, serverSeq>>

\* what a settled call reports in last
Settled(c, id) ==
    [slot |-> c, id |-> id, temp |-> calls[c].temp, before |-> calls[c].before,
     clean |-> (data = calls[c].mid)]

\* connect(), up to await this._adapter.connect()
connect ==
    \E c \in DOMAIN calls :
        /\ calls[c].pc = "idle"
        /\ ~destroyed
        /\ loading' = TRUE
        /\ calls' = [calls EXCEPT ![c] =
                        [IdleCall EXCEPT !.op = "connect", !.pc = "connect"]]
        /\ last' = Op("connect", [slot |-> c])
        /\ UNCHANGED <<data, error, connected, filters, sorts, selectedRows,
                       currentPage, pageSize>>
        /\ CallFrame
        /\ TableFrame

\* adapter.connect() resolves; connect() goes on to await this._adapter.read()
connectResolved ==
    \E c \in DOMAIN calls :
        /\ calls[c].pc = "connect"
        /\ calls' = [calls EXCEPT ![c].pc = "read"]
        /\ last' = Op("connect.connected", [slot |-> c])
        /\ UNCHANGED stateVars
        /\ CallFrame
        /\ TableFrame

\* refresh(), up to await this._adapter.read(...)
refresh ==
    \E c \in DOMAIN calls :
        /\ calls[c].pc = "idle"
        /\ ~destroyed
        /\ loading' = TRUE
        /\ calls' = [calls EXCEPT ![c] =
                        [IdleCall EXCEPT !.op = "refresh", !.pc = "read"]]
        /\ last' = Op("refresh", [slot |-> c])
        /\ UNCHANGED <<data, error, connected, filters, sorts, selectedRows,
                       currentPage, pageSize>>
        /\ CallFrame
        /\ TableFrame

\* adapter.read() resolves inside connect() or refresh(): setData, then the
\* finally block
readResolved ==
    \E c \in DOMAIN calls, result \in ReadResults :
        /\ calls[c].pc = "read"
        /\ data' = result
        /\ loading' = FALSE
        /\ calls' = [calls EXCEPT ![c] = IdleCall]
        /\ last' = Op("read.resolved", [of |-> calls[c].op])
        /\ UNCHANGED <<error, connected, filters, sorts, selectedRows,
                       currentPage, pageSize>>
        /\ CallFrame
        /\ TableFrame

\* adapter.connect() or adapter.read() rejects inside connect() or refresh()
readRejected ==
    \E c \in DOMAIN calls :
        /\ calls[c].pc \in {"connect", "read"}
        /\ error' = "network"
        /\ loading' = FALSE
        /\ calls' = [calls EXCEPT ![c] = IdleCall]
        /\ last' = Op("read.rejected", [of |-> calls[c].op])
        /\ UNCHANGED <<data, connected, filters, sorts, selectedRows,
                       currentPage, pageSize>>
        /\ CallFrame
        /\ TableFrame

\* create(data), up to await this._adapter.create(data)
create ==
    \E c \in DOMAIN calls, v \in {1} :
        /\ calls[c].pc = "idle"
        /\ ~destroyed
        /\ Len(data) < MaxRows
        /\ data' = IF optimistic THEN addRow(data, Row(TempId(now), v)) ELSE data
        /\ calls' = [calls EXCEPT ![c] =
                        [IdleCall EXCEPT !.op = "create", !.pc = "await", !.val = v,
                                         !.temp = IF optimistic THEN TempId(now) ELSE "",
                                         !.before = data, !.mid = data']]
        /\ last' = Op("create", [slot |-> c])
        /\ DataOnly
        /\ CallFrame
        /\ TableFrame

\* update(id, data), up to await this._adapter.update(id, data)
update ==
    \E c \in DOMAIN calls, id \in RowIds, v \in Vals :
        /\ calls[c].pc = "idle"
        /\ ~destroyed
        /\ data' = IF optimistic /\ getRow(data, id) # <<>>
                   THEN updateRow(data, id, Spread(getRow(data, id)[1], [val |-> v]))
                   ELSE data
        /\ calls' = [calls EXCEPT ![c] =
                        [IdleCall EXCEPT !.op = "update", !.pc = "await", !.id = id,
                                         !.val = v, !.orig = getRow(data, id),
                                         !.before = data, !.mid = data']]
        /\ last' = Op("update", [slot |-> c])
        /\ DataOnly
        /\ CallFrame
        /\ TableFrame

\* delete(id), up to await this._adapter.delete(id)
delete ==
    \E c \in DOMAIN calls, id \in RowIds :
        /\ calls[c].pc = "idle"
        /\ ~destroyed
        /\ data' = IF optimistic THEN removeRow(data, id) ELSE data
        /\ calls' = [calls EXCEPT ![c] =
                        [IdleCall EXCEPT !.op = "delete", !.pc = "await", !.id = id,
                                         !.orig = getRow(data, id),
                                         !.before = data, !.mid = data']]
        /\ last' = Op("delete", [slot |-> c])
        /\ DataOnly
        /\ CallFrame
        /\ TableFrame

\* the row the adapter answers a create / update with
adapterRow(c) ==
    IF calls[c].op = "create"
    THEN Row(NewId(serverSeq + 1), calls[c].val)
    ELSE Row(calls[c].id, calls[c].val)

\* the adapter performs an outstanding create / update / delete, and may
\* announce the change to its listeners
AdapterCommits ==
    \E c \in DOMAIN calls, echo \in BOOLEAN :
        /\ calls[c].pc = "await"
        /\ calls[c].op = "create" => serverSeq < MaxCreates
        /\ serverSeq' = IF calls[c].op = "create" THEN serverSeq + 1 ELSE serverSeq
        /\ calls' = [calls EXCEPT ![c].pc = "committed", ![c].res = <<adapterRow(c)>>]
        /\ IF echo
           THEN /\ Len(events) < MaxEvents
                /\ events' = Append(events, Event(calls[c].op, <<adapterRow(c)>>))
           ELSE UNCHANGED events
        /\ last' = Op("adapterCommits", [slot |-> c])
        /\ UNCHANGED <<stateVars, destroyed, subscribed, optimistic, now>>
        /\ TableFrame

\* create(): the code after await this._adapter.create(data)
createResolvedData(d, temp, newRow) ==
    LET d1 == IF temp # "" THEN removeRow(d, temp) ELSE d
    IN  IF ~hasRow(d1, newRow.id) THEN addRow(d1, newRow) ELSE d1

createResolved ==
    \E c \in DOMAIN calls :
        /\ calls[c].pc = "committed" /\ calls[c].op = "create"
        /\ data' = createResolvedData(data, calls[c].temp, calls[c].res[1])
        /\ Len(data') <= MaxRows
        /\ calls' = [calls EXCEPT ![c] = IdleCall]
        /\ last' = Op("create.resolved", Settled(c, calls[c].res[1].id))
        /\ DataOnly
        /\ CallFrame
        /\ TableFrame

\* create(): the catch block
createRejectedData(d) == IF optimistic THEN removeTempRows(d) ELSE d

createRejected ==
    \E c \in DOMAIN calls :
        /\ calls[c].pc = "await" /\ calls[c].op = "create"
        /\ data' = createRejectedData(data)
        /\ calls' = [calls EXCEPT ![c] = IdleCall]
        /\ last' = Op("create.rejected", Settled(c, ""))
        /\ DataOnly
        /\ CallFrame
        /\ TableFrame

\* update(): the code after await this._adapter.update(id, data)
updateResolved ==
    \E c \in DOMAIN calls :
        /\ calls[c].pc = "committed" /\ calls[c].op = "update"
        /\ data' = updateRow(data, calls[c].id, calls[c].res[1])
        /\ calls' = [calls EXCEPT ![c] = IdleCall]
        /\ last' = Op("update.resolved", Settled(c, calls[c].id))
        /\ DataOnly
        /\ CallFrame
        /\ TableFrame

\* update(): the catch block; it looks the row up and restores nothing
updateRejectedData(d, orig) == d

updateRejected ==
    \E c \in DOMAIN calls :
        /\ calls[c].pc = "await" /\ calls[c].op = "update"
        /\ data' = updateRejectedData(data, calls[c].orig)
        /\ calls' = [calls EXCEPT ![c] = IdleCall]
        /\ last' = Op("update.rejected", Settled(c, calls[c].id))
        /\ DataOnly
        /\ CallFrame
        /\ TableFrame

\* delete(): the code after await this._adapter.delete(id)
deleteResolved ==
    \E c \in DOMAIN calls :
        /\ calls[c].pc = "committed" /\ calls[c].op = "delete"
        /\ data' = IF ~optimistic THEN removeRow(data, calls[c].id) ELSE data
        /\ calls' = [calls EXCEPT ![c] = IdleCall]
        /\ last' = Op("delete.resolved", Settled(c, calls[c].id))
        /\ DataOnly
        /\ CallFrame
        /\ TableFrame

\* delete(): the catch block
deleteRejectedData(d, orig) ==
    IF optimistic /\ orig # <<>> THEN addRow(d, orig[1]) ELSE d

deleteRejected ==
    \E c \in DOMAIN calls :
        /\ calls[c].pc = "await" /\ calls[c].op = "delete"
        /\ data' = deleteRejectedData(data, calls[c].orig)
        /\ Len(data') <= MaxRows
        /\ calls' = [calls EXCEPT ![c] = IdleCall]
        /\ last' = Op("delete.rejected", Settled(c, calls[c].id))
        /\ DataOnly
        /\ CallFrame
        /\ TableFrame

\* destroy(): a second call returns at once
destroy ==
    /\ ~destroyed
    /\ destroyed' = TRUE
    /\ subscribed' = FALSE
    /\ stateDestroy
    /\ last' = Op("destroy", NoArg)
    /\ UNCHANGED <<optimistic, calls, events, now, serverSeq>>
    /\ TableFrame

NextTable ==
    \/ Tick
    \/ RemoteEvent
    \/ DeliverEvent
    \/ connect
    \/ connectResolved
    \/ refresh
    \/ readResolved
    \/ readRejected
    \/ create
    \/ update
    \/ delete
    \/ AdapterCommits
    \/ createResolved
    \/ createRejected
    \/ updateResolved
    \/ updateRejected
    \/ deleteResolved
    \/ deleteRejected
    \/ destroy

(***************************************************************************)
(* RealtimeSync                                                            *)
(*                                                                         *)
(* pendingUpdates and conflicts are state.pendingUpdates / state.conflicts.*)
(* sync holds the scalar state: state.connected, state.syncing,            *)
(* state.error, retryCount, whether the debounce and reconnect timers are  *)
(* armed (reconnectDelay is the delay the reconnect timer was armed with), *)
(* whether a forcSync call is awaiting the adapter (forcing),              *)
(* the number of armed sync-retry timers, whether the adapter              *)
(* listeners are registered, and the counters that number updates and      *)
(* conflicts.  syncRun is the position of performSync's loop.              *)
(* discarded is the set of optimistic updates that a last-write-wins       *)
(* resolution has dropped.                                                 *)
(*                                                                         *)
(* applyRemoteChange hands the event to adapter.emit('dataChange', ...).   *)
(* An adapter that has emit delivers it to its dataChange listeners, the   *)
(* coordinator's own handler among them; the events applyRemoteChange      *)
(* emits find no conflict there (the pending updates they could conflict   *)
(* with are gone or were found not to conflict), so the re-entered handler *)
(* only emits the same event again.  The model records each event once.    *)
(***************************************************************************)
MaxSyncUpdates == 1    \* optimistic updates ever handed to the coordinator
MaxConflicts   == 2    \* conflicts ever queued
MaxResolves    == 2    \* resolveConflict calls awaiting the adapter at once
MaxBurst       == 3    \* optimistic updates of a burst
MaxQueueUpdates == 2   \* optimistic updates queued among events and resolutions
MaxDebounceClock == 4  \* the clock of the debounce timer runs from 0 to this
debounceMs     == 2    \* config.debounceMs, in units of the clock
syncMaxRetries == 3    \* config.maxRetries

SyncIds    == {"r1", "r2"}
LocalRow(id)  == [id |-> id, status |-> "done"]
RemoteRow(id) == [id |-> id, status |-> "archived"]

\* a DataChangeEvent: rows, and the optional data (<<>> when absent)
ChangeEvent(type, rows, d) == [type |-> type, rows |-> rows, data |-> d]

\* the event shapes: the row in rows, in rows and data, or in data alone
RemoteEvents ==
    {ChangeEvent(type, <<RemoteRow(id)>>, <<>>) :
        type \in {"create", "update", "delete"}, id \in SyncIds}
    \cup {ChangeEvent(type, <<RemoteRow(id)>>, <<RemoteRow(id)>>) :
        type \in {"create", "update", "delete"}, id \in SyncIds}
    \cup {ChangeEvent(type, <<>>, <<RemoteRow(id)>>) :
        type \in {"create", "update", "delete"}, id \in SyncIds}

\* the row an event is about
EventRowId(event) ==
    IF event.rows # <<>> THEN event.rows[1].id ELSE event.data[1].id

\* no performSync run in flight.  atStart and sent record, for the run in
\* flight, the updates that were pending when it started and the updates it
\* has handed to syncUpdate; cur is the update whose adapter call the run
\* awaits.  delivered holds the updates whose adapter call has resolved
\* since the queue was last cleared by a run: it outlives a failed run.
\* The loop iterates the array object that state.pendingUpdates held when
\* the run started.  An assignment  this.state.pendingUpdates = []  made
\* during the run leaves that object with the iterator: detached says so,
\* and arr is then the array the loop goes on with.
IdleRun == [pc |-> "idle", idx |-> 0, atStart |-> {}, sent |-> {}, cur |-> 0,
            delivered |-> {}, detached |-> FALSE, arr |-> <<>>]

\* the array the loop of the run in flight iterates
runArray == IF syncRun.detached THEN syncRun.arr ELSE pendingUpdates

\* state.pendingUpdates, holding queue, is assigned a new array
detachRun(run, queue) ==
    IF run.pc = "awaiting" /\ ~run.detached
    THEN [run EXCEPT !.detached = TRUE, !.arr = queue]
    ELSE run

InitSync ==
    /\ pendingUpdates = <<>>
    /\ conflicts = <<>>
    /\ sync = [connected |-> FALSE, syncing |-> FALSE, error |-> NoError,
               retryCount |-> 0, debounce |-> FALSE, reconnect |-> FALSE,
               reconnectDelay |-> 0, forcing |-> FALSE,
               retryTimers |-> 0, listening |-> FALSE, uidSeq |-> 0,
               cidSeq |-> 0, resolving |-> <<>>, debounceAt |-> 0,
               lastCallAt |-> 0, destroyed |-> FALSE]
    /\ syncRun = IdleRun
    /\ discarded = {}

SyncFrame ==
    UNCHANGED <<stateVars, tableVars, optVars, scrollVars, lifeVars,
                conflictResolution, adapterData, advVars,
                engineVars>>

\* String(localUpdate.data.id) === String(remoteEvent.data?.id), and both
\* are updates or deletes
isConflicting(localUpdate, remoteEvent) ==
    /\ remoteEvent.data # <<>>
    /\ localUpdate.data.id = remoteEvent.data[1].id
    /\ localUpdate.type \in {"update", "delete"}
    /\ remoteEvent.type \in {"update", "delete"}

\* the updates of the queue that detectConflicts turns into ConflictEvents
detectConflicts(queue, remoteEvent) ==
    SelectSeq(queue, LAMBDA u : isConflicting(u, remoteEvent))

ConflictEvent(u, remoteEvent, cid) ==
    [id |-> cid, type |-> remoteEvent.type, localData |-> u.data,
     remoteData |-> IF remoteEvent.data # <<>> THEN remoteEvent.data[1] ELSE u.data,
     uid |-> u.uid]

\* removeOptimisticUpdate(id): the first update for the record is spliced out
removeOptimisticUpdate(queue, id) ==
    LET index == FindIndex(queue, LAMBDA u : u.data.id = id)
    IN  IF index > 0 THEN Splice(queue, index) ELSE queue

RECURSIVE removeAll(_, _)
removeAll(queue, found) ==
    IF found = <<>> THEN queue
    ELSE removeAll(removeOptimisticUpdate(queue, Head(found).data.id), Tail(found))

\* mergeChanges: the remote row, with the local value for every field other
\* than id that the remote row lacks or has as null
mergeChanges(localData, remoteData) ==
    [k \in (DOMAIN remoteData) \cup (DOMAIN localData) |->
        IF k \in DOMAIN localData /\ k # "id"
           /\ (k \notin DOMAIN remoteData \/ remoteData[k] = "null")
        THEN localData[k]
        ELSE remoteData[k]]

\* the event resolveConflicts applies for one conflict under last-write-wins
lastWriteWinsEvent(remoteEvent) ==
    ChangeEvent(remoteEvent.type,
                IF remoteEvent.data # <<>> THEN <<remoteEvent.data[1]>> ELSE <<>>,
                <<>>)

\* the event resolveConflicts applies for one conflict under merge
mergeEvent(u, remoteEvent) ==
    ChangeEvent(remoteEvent.type,
                <<mergeChanges(u.data, ConflictEvent(u, remoteEvent, 0).remoteData)>>,
                <<>>)

\* the events handleRemoteChange hands to applyRemoteChange
appliedEvents(queue, remoteEvent) ==
    LET found == detectConflicts(queue, remoteEvent)
    IN  IF found = <<>> THEN <<remoteEvent>>
        ELSE CASE conflictResolution = "last-write-wins" ->
                    [i \in DOMAIN found |-> lastWriteWinsEvent(remoteEvent)]
               [] conflictResolution = "merge" ->
                    [i \in DOMAIN found |-> mergeEvent(found[i], remoteEvent)]
               [] OTHER -> <<>>

\* the queue after handleRemoteChange
queueAfterRemote(queue, remoteEvent) ==
    LET found == detectConflicts(queue, remoteEvent)
    IN  IF conflictResolution \in {"last-write-wins", "merge"}
        THEN removeAll(queue, found)
        ELSE queue

\* the adapter's dataChange listener, once registered:
\* handleRemoteChange(event)
handleRemoteChangeBody(event) ==
        LET found == detectConflicts(pendingUpdates, event)
            queued == IF conflictResolution = "manual" THEN found ELSE <<>>
        IN  /\ sync.cidSeq + Len(queued) <= MaxConflicts
            /\ pendingUpdates' = queueAfterRemote(pendingUpdates, event)
            /\ conflicts' = conflicts \o
                   [i \in DOMAIN queued |-> ConflictEvent(queued[i], event, sync.cidSeq + i)]
            /\ sync' = [sync EXCEPT !.cidSeq = @ + Len(queued)]
            /\ discarded' = IF conflictResolution = "last-write-wins"
                            THEN discarded \cup {found[i].uid : i \in DOMAIN found}
                            ELSE discarded
            /\ last' = Op("handleRemoteChange",
                          [event |-> event,
                           hadPending |-> {pendingUpdates[i].type : i \in
                               {j \in DOMAIN pendingUpdates :
                                   pendingUpdates[j].data.id = EventRowId(event)}},
                           raised |-> Len(found),
                           applied |-> appliedEvents(pendingUpdates, event)])
            /\ UNCHANGED syncRun
            /\ SyncFrame

handleRemoteChange ==
    \E event \in RemoteEvents :
        /\ sync.listening
        /\ handleRemoteChangeBody(event)

\* the update and delete events that carry the changed row both in rows
\* and in data
FullEvents ==
    {ChangeEvent(type, <<RemoteRow(id)>>, <<RemoteRow(id)>>) :
        type \in {"update", "delete"}, id \in SyncIds}

Queue_handleRemoteChange ==
    \E event \in FullEvents :
        /\ sync.listening
        /\ handleRemoteChangeBody(event)

\* the delay scheduleReconnect arms the reconnect timer with, in ms
reconnectDelayOf(retryCount) == Min(1000 * 2 ^ retryCount, 30000)

\* scheduleReconnect(): a timer already armed is replaced
scheduleReconnect(s) ==
    [s EXCEPT !.reconnect = TRUE, !.reconnectDelay = reconnectDelayOf(s.retryCount)]

\* initialize(): the listeners are registered; it fails when registering throws
initialize(s, ok) ==
    IF ok
    THEN [s EXCEPT !.listening = TRUE, !.connected = TRUE, !.error = NoError,
                   !.retryCount = 0]
    ELSE scheduleReconnect([s EXCEPT !.error = "listen", !.connected = FALSE])

sync_initialize ==
    \E ok \in BOOLEAN :
        /\ sync' = initialize(sync, ok)
        /\ last' = Op("initialize", [ok |-> ok])
        /\ UNCHANGED <<pendingUpdates, conflicts, syncRun, discarded>>
        /\ SyncFrame

\* the reconnect timer fires: initialize()
reconnectFires ==
    \E ok \in BOOLEAN :
        /\ sync.reconnect
        /\ sync' = initialize([sync EXCEPT !.reconnect = FALSE,
                                            !.reconnectDelay = 0], ok)
        /\ last' = Op("reconnectFires", [ok |-> ok])
        /\ UNCHANGED <<pendingUpdates, conflicts, syncRun, discarded>>
        /\ SyncFrame

\* the adapter's connection listener
connectionChange ==
    \E up \in BOOLEAN :
        /\ sync.listening
        /\ sync' = IF up THEN [sync EXCEPT !.connected = TRUE]
                   ELSE scheduleReconnect([sync EXCEPT !.connected = FALSE])
        /\ last' = Op("connectionChange", [ok |-> up])
        /\ UNCHANGED <<pendingUpdates, conflicts, syncRun, discarded>>
        /\ SyncFrame

\* an addOptimisticUpdate that pushes without removing the queued update
addOptimisticUpdateKeeps(queue, u) == Append(queue, u)

\* addOptimisticUpdate(update): config.optimisticUpdates is true
addOptimisticUpdate(queue, u) ==
    Append(removeOptimisticUpdate(queue, u.data.id), u)

\* scheduleSync() at time t: the debounce timer is cleared and armed anew,
\* to fire debounceMs later
scheduleSync(s, t) ==
    [s EXCEPT !.debounce = TRUE, !.debounceAt = t + debounceMs]

\* addOptimisticUpdate(update); lastCallAt records the time of the call
addOptimisticUpdateBody(type, id) ==
    /\ now + debounceMs <= MaxDebounceClock
    /\ pendingUpdates' = addOptimisticUpdate(pendingUpdates,
           [uid |-> sync.uidSeq + 1, type |-> type, data |-> LocalRow(id)])
    /\ sync' = scheduleSync([sync EXCEPT !.uidSeq = @ + 1,
                                          !.lastCallAt = now], now)
    /\ last' = Op("addOptimisticUpdate",
                  [uid |-> sync.uidSeq + 1,
                   replaced |-> \E i \in DOMAIN pendingUpdates :
                                    pendingUpdates[i].data.id = id])
    /\ UNCHANGED <<conflicts, syncRun, discarded>>
    /\ SyncFrame

sync_addOptimisticUpdate ==
    \E type \in {"create", "update", "delete"}, id \in SyncIds :
        /\ sync.uidSeq < MaxSyncUpdates
        /\ addOptimisticUpdateBody(type, id)

\* the calls that fill and refill the queue
Queue_addOptimisticUpdate ==
    \E type \in {"create", "update", "delete"}, id \in SyncIds :
        /\ sync.uidSeq < MaxQueueUpdates
        /\ addOptimisticUpdateBody(type, id)

\* the calls of a burst
Burst_addOptimisticUpdate ==
    \E type \in {"create", "update", "delete"}, id \in SyncIds :
        /\ sync.uidSeq < MaxBurst
        /\ addOptimisticUpdateBody(type, id)

\* performSync() from its start to its first await, or to its end when the
\* queue is empty; it returns at once while syncing or disconnected
performSyncStart(s) ==
    IF s.syncing \/ ~s.connected
    THEN /\ sync' = s
         /\ UNCHANGED <<pendingUpdates, syncRun>>
         /\ last' = Op("performSync", [outcome |-> "skipped"])
    ELSE IF pendingUpdates = <<>>
    THEN /\ sync' = [s EXCEPT !.error = NoError, !.retryCount = 0]
         /\ UNCHANGED <<pendingUpdates, syncRun>>
         /\ last' = Op("performSync", [outcome |-> "empty"])
    ELSE /\ sync' = [s EXCEPT !.syncing = TRUE]
         /\ syncRun' = [pc |-> "awaiting", idx |-> 1,
                        atStart |-> {pendingUpdates[i].uid : i \in DOMAIN pendingUpdates},
                        sent |-> {pendingUpdates[1].uid},
                        cur |-> pendingUpdates[1].uid,
                        delivered |-> syncRun.delivered,
                        detached |-> FALSE, arr |-> <<>>]
         /\ UNCHANGED pendingUpdates
         /\ last' = Op("syncUpdate", pendingUpdates[1])

\* the debounce timer fires
debounceFires ==
    /\ sync.debounce
    /\ syncRun.pc = "idle"
    /\ performSyncStart([sync EXCEPT !.debounce = FALSE])
    /\ UNCHANGED <<conflicts, discarded>>
    /\ SyncFrame

\* the debounce timer fires when its delay has passed, whatever the
\* coordinator is doing
debounceFiresOnTime ==
    /\ sync.debounce
    /\ now >= sync.debounceAt
    /\ performSyncStart([sync EXCEPT !.debounce = FALSE])
    /\ UNCHANGED <<conflicts, discarded>>
    /\ SyncFrame

\* time passes, by one unit; a timer that is due fires first
Sync_tick ==
    /\ now < MaxDebounceClock
    /\ ~(sync.debounce /\ now >= sync.debounceAt)
    /\ now' = now + 1
    /\ last' = Op("tick", NoArg)
    /\ UNCHANGED <<stateVars, destroyed, subscribed, optimistic, calls, events,
                   serverSeq, optVars, syncVars, scrollVars, lifeVars, advVars,
                   engineVars, conflictResolution, adapterData>>

\* a timer armed by performSync's catch block fires
syncRetryFires ==
    /\ sync.retryTimers > 0
    /\ syncRun.pc = "idle"
    /\ performSyncStart([sync EXCEPT !.retryTimers = @ - 1])
    /\ UNCHANGED <<conflicts, discarded>>
    /\ SyncFrame

\* the adapter call of syncUpdate resolves: the loop takes the next element
\* of the array, or ends and clears the queue
syncResolved ==
    /\ syncRun.pc = "awaiting"
    /\ IF syncRun.idx + 1 <= Len(runArray)
       THEN /\ syncRun' = [syncRun EXCEPT !.idx = @ + 1,
                   !.sent = @ \cup {runArray[syncRun.idx + 1].uid},
                   !.cur = runArray[syncRun.idx + 1].uid,
                   !.delivered = @ \cup {syncRun.cur}]
            /\ last' = Op("syncUpdate", runArray[syncRun.idx + 1])
            /\ UNCHANGED <<pendingUpdates, sync>>
       ELSE /\ syncRun' = IdleRun
            /\ pendingUpdates' = <<>>
            /\ sync' = [sync EXCEPT !.error = NoError, !.retryCount = 0,
                                    !.syncing = FALSE]
            /\ last' = Op("performSync", [outcome |-> "done"])
    /\ UNCHANGED <<conflicts, discarded>>
    /\ SyncFrame

\* the adapter call of syncUpdate rejects: the catch and finally blocks
syncRejected ==
    /\ syncRun.pc = "awaiting"
    /\ syncRun' = [IdleRun EXCEPT !.delivered = syncRun.delivered]
    /\ sync' = [sync EXCEPT !.error = "network", !.retryCount = @ + 1,
                            !.retryTimers = IF sync.retryCount + 1 < syncMaxRetries
                                            THEN @ + 1 ELSE @,
                            !.syncing = FALSE]
    /\ last' = Op("performSync", [outcome |-> "failed"])
    /\ UNCHANGED <<pendingUpdates, conflicts, discarded>>
    /\ SyncFrame

\* forcSync(), up to await this.adapter.refresh(); one call at a time
forcSync ==
    /\ ~sync.forcing
    /\ sync' = [sync EXCEPT !.syncing = TRUE, !.forcing = TRUE]
    /\ last' = Op("forcSync", [outcome |-> "started"])
    /\ UNCHANGED <<pendingUpdates, conflicts, syncRun, discarded>>
    /\ SyncFrame

\* adapter.refresh() resolves: the rest of the try block, then finally
forcSyncResolved ==
    /\ sync.forcing
    /\ pendingUpdates' = <<>>
    /\ conflicts' = <<>>
    /\ sync' = [sync EXCEPT !.error = NoError, !.syncing = FALSE,
                            !.forcing = FALSE]
    /\ syncRun' = detachRun(syncRun, pendingUpdates)
    /\ last' = Op("forcSync", [outcome |-> "done"])
    /\ UNCHANGED discarded
    /\ SyncFrame

\* adapter.refresh() rejects: the catch block, then finally; the promise
\* forcSync returned is fulfilled all the same
forcSyncRejected ==
    /\ sync.forcing
    /\ sync' = [sync EXCEPT !.error = "network", !.syncing = FALSE,
                            !.forcing = FALSE]
    /\ last' = Op("forcSync", [outcome |-> "failed"])
    /\ UNCHANGED <<pendingUpdates, conflicts, syncRun, discarded>>
    /\ SyncFrame

\* destroy(): the debounce and reconnect timers are cleared, the listeners
\* unsubscribed and the state reset; the timers armed by performSync's catch
\* block have no handle and stay armed
sync_destroy ==
    /\ sync' = [sync EXCEPT !.debounce = FALSE, !.reconnect = FALSE,
                            !.reconnectDelay = 0, !.listening = FALSE,
                            !.connected = FALSE, !.syncing = FALSE,
                            !.destroyed = TRUE]
    /\ pendingUpdates' = <<>>
    /\ conflicts' = <<>>
    /\ syncRun' = detachRun(syncRun, pendingUpdates)
    /\ last' = Op("destroy", [again |-> sync.destroyed])
    /\ UNCHANGED discarded
    /\ SyncFrame

\* initialize() of a coordinator that has not been destroyed
Destroy_initialize ==
    /\ ~sync.destroyed
    /\ sync_initialize

NextSync ==
    \/ sync_initialize
    \/ reconnectFires
    \/ connectionChange
    \/ sync_addOptimisticUpdate
    \/ handleRemoteChange
    \/ debounceFires
    \/ syncRetryFires
    \/ syncResolved
    \/ syncRejected

\* resolveConflict(conflictId, resolution), up to await this.adapter.update:
\* sync.resolving holds, for every call that awaits the adapter, the index
\* the call found the conflict at and the record of the conflict's local data
sync_resolveConflict ==
    \E conflictId \in 1..MaxConflicts, resolution \in {"local", "remote"} :
        LET conflictIndex == FindIndex(conflicts, LAMBDA c : c.id = conflictId)
        IN  /\ IF conflictIndex = 0
               THEN UNCHANGED sync
               ELSE /\ Len(sync.resolving) < MaxResolves
                    /\ sync' = [sync EXCEPT !.resolving = Append(@,
                           [conflictIndex |-> conflictIndex,
                            conflictId |-> conflictId,
                            localId |-> conflicts[conflictIndex].localData.id])]
            /\ last' = Op("resolveConflict",
                          [conflictId |-> conflictId, found |-> conflictIndex # 0])
            /\ UNCHANGED <<pendingUpdates, conflicts, syncRun, discarded>>
            /\ SyncFrame

\* adapter.update resolves: the element at the index found before the await
\* is spliced out, and the optimistic update of the record is removed
resolveConflictResolved ==
    \E k \in DOMAIN sync.resolving :
        LET call == sync.resolving[k]
        IN  /\ conflicts' = IF call.conflictIndex <= Len(conflicts)
                            THEN Splice(conflicts, call.conflictIndex)
                            ELSE conflicts
            /\ pendingUpdates' = removeOptimisticUpdate(pendingUpdates, call.localId)
            /\ sync' = [sync EXCEPT !.resolving = Splice(@, k)]
            /\ last' = Op("resolveConflict.resolved",
                          [conflictId |-> call.conflictId])
            /\ UNCHANGED <<syncRun, discarded>>
            /\ SyncFrame

\* adapter.update rejects: resolveConflict rejects and changes nothing
resolveConflictRejected ==
    \E k \in DOMAIN sync.resolving :
        /\ sync' = [sync EXCEPT !.resolving = Splice(@, k)]
        /\ last' = Op("resolveConflict.rejected",
                      [conflictId |-> sync.resolving[k].conflictId])
        /\ UNCHANGED <<pendingUpdates, conflicts, syncRun, discarded>>
        /\ SyncFrame

(***************************************************************************)
(* The merge resolution of OptimisticUpdateManager and of RealtimeSync     *)
(*                                                                         *)
(* A row has an id, and may have a name and an updatedAt field; a field    *)
(* that is present holds a string or "null".  updatedAt holds a date       *)
(* string, which new Date(...).getTime() parses; it is the one key of the  *)
(* model that includes 'updated'.                                          *)
(***************************************************************************)
MergeNames == {"ann", "bob", "null"}
MergeDates == {"2024-01-01", "2024-01-02", "null"}

\* the rows over the given ids, with each of name and updatedAt present or not
MergeRowsOf(ids) ==
    {[id |-> id] : id \in ids}
    \cup {[id |-> id, name |-> n] : id \in ids, n \in MergeNames}
    \cup {[id |-> id, updatedAt |-> t] : id \in ids, t \in MergeDates}
    \cup {[id |-> id, name |-> n, updatedAt |-> t] :
            id \in ids, n \in MergeNames, t \in MergeDates}

MergeLocalRows  == MergeRowsOf({"r1", "temp_1"})
MergeRemoteRows == MergeRowsOf({"r1"})

\* key.includes('updated') || key.includes('modified')
isTimestampKey(key) == key \in {"updatedAt", "modifiedAt"}

\* new Date(value).getTime(), in days since the epoch; new Date(null) is
\* the epoch
getTime(value) ==
    CASE value = "2024-01-01" -> 19723
      [] value = "2024-01-02" -> 19724
      [] value = "null"       -> 0

\* OptimisticUpdateManager.mergeData
mergeData(localData, remoteData) ==
    [key \in (DOMAIN remoteData) \cup (DOMAIN localData) |->
        IF key \in DOMAIN localData /\ key # "id"
        THEN IF key \notin DOMAIN remoteData \/ remoteData[key] = "null"
             THEN localData[key]
             ELSE IF isTimestampKey(key)
                  THEN IF getTime(localData[key]) > getTime(remoteData[key])
                       THEN localData[key]
                       ELSE remoteData[key]
                  ELSE remoteData[key]
        ELSE remoteData[key]]

MergeFrame ==
    UNCHANGED <<stateVars, tableVars, optVars, syncVars, scrollVars, lifeVars,
                advVars, engineVars, conflictResolution, adapterData>>

\* mergeData(localData, remoteData), as autoResolveConflicts calls it
applyMergeData ==
    /\ last' = Op("mergeData",
                  [localData |-> last.arg.localData,
                   remoteData |-> last.arg.remoteData,
                   merged |-> <<mergeData(last.arg.localData, last.arg.remoteData)>>])
    /\ MergeFrame

\* mergeChanges(localData, remoteData), as resolveConflicts calls it
applyMergeChanges ==
    /\ last' = Op("mergeChanges",
                  [localData |-> last.arg.localData,
                   remoteData |-> last.arg.remoteData,
                   merged |-> <<mergeChanges(last.arg.localData, last.arg.remoteData)>>])
    /\ MergeFrame

(***************************************************************************)
(* ReactiveTable: disconnect, destroy and cell editing                     *)
(*                                                                         *)
(* unsubscribeAdapter tells whether the _unsubscribeAdapter field holds    *)
(* the handle setupRealtimeSync stored.  disconnectCalls and               *)
(* unsubscribeCalls count the calls the table has made to                  *)
(* adapter.disconnect() and to that handle.  editingCell is _editingCell,  *)
(* <<>> for null and <<rowId, columnId>> for "rowId:columnId".  The table  *)
(* is configured with editing options that name the editable columns and   *)
(* provide the onCellEditCancel handler; the handler calls a method makes  *)
(* are reported in last.                                                   *)
(***************************************************************************)
MaxDisconnects == 2    \* disconnect() calls a caller makes

EditColumns     == {"val", "id"}
editableColumns == {"val"}

InitLife ==
    /\ unsubscribeAdapter = TRUE
    /\ editingCell = <<>>
    /\ disconnectCalls = 0
    /\ unsubscribeCalls = 0

LifeFrame ==
    UNCHANGED <<optVars, syncVars, scrollVars, conflictResolution, adapterData, advVars,
                engineVars>>

\* disconnect(), up to await this._adapter.disconnect()
Table_disconnect ==
    \E c \in DOMAIN calls :
        /\ calls[c].pc = "idle"
        /\ disconnectCalls < MaxDisconnects
        /\ unsubscribeCalls' = IF unsubscribeAdapter THEN unsubscribeCalls + 1
                               ELSE unsubscribeCalls
        /\ subscribed' = IF unsubscribeAdapter THEN FALSE ELSE subscribed
        /\ unsubscribeAdapter' = FALSE
        /\ disconnectCalls' = disconnectCalls + 1
        /\ calls' = [calls EXCEPT ![c] =
                        [IdleCall EXCEPT !.op = "disconnect", !.pc = "disconnect"]]
        /\ last' = Op("disconnect", [slot |-> c])
        /\ UNCHANGED <<stateVars, destroyed, optimistic, events, now, serverSeq,
                       editingCell>>
        /\ LifeFrame

\* adapter.disconnect() resolves inside disconnect(): setConnected(false)
disconnectResolved ==
    \E c \in DOMAIN calls :
        /\ calls[c].pc = "disconnect"
        /\ connected' = FALSE
        /\ calls' = [calls EXCEPT ![c] = IdleCall]
        /\ last' = Op("disconnect.resolved", [slot |-> c])
        /\ UNCHANGED <<data, loading, error, filters, sorts, selectedRows,
                       currentPage, pageSize>>
        /\ CallFrame
        /\ UNCHANGED lifeVars
        /\ LifeFrame

\* adapter.disconnect() rejects inside disconnect()
disconnectRejected ==
    \E c \in DOMAIN calls :
        /\ calls[c].pc = "disconnect"
        /\ calls' = [calls EXCEPT ![c] = IdleCall]
        /\ last' = Op("disconnect.rejected", [slot |-> c])
        /\ UNCHANGED stateVars
        /\ CallFrame
        /\ UNCHANGED lifeVars
        /\ LifeFrame

\* destroy() past its  if (this._destroyed) return
destroyBody ==
    /\ destroyed' = TRUE
    /\ unsubscribeCalls' = IF unsubscribeAdapter THEN unsubscribeCalls + 1
                           ELSE unsubscribeCalls
    /\ subscribed' = IF unsubscribeAdapter THEN FALSE ELSE subscribed
    /\ disconnectCalls' = disconnectCalls + 1
    /\ stateDestroy
    /\ UNCHANGED <<optimistic, calls, events, now, serverSeq, unsubscribeAdapter,
                   editingCell>>

\* a destroy() that does not look at the destroyed flag
Table_destroyUnguarded ==
    /\ destroyBody
    /\ last' = Op("destroy", [again |-> destroyed])
    /\ LifeFrame

\* destroy(), whenever it is called
Table_destroy ==
    /\ IF destroyed
       THEN UNCHANGED <<stateVars, tableVars, lifeVars>>
       ELSE destroyBody
    /\ last' = Op("destroy", [again |-> destroyed])
    /\ LifeFrame

\* whether cancelCellEdit calls onCellEditCancel for the cell: the handler
\* is only called when getRow finds the row
cancelHandlerRuns(cell) == cell # <<>> /\ getRow(data, cell[1]) # <<>>

\* the cell cancelCellEdit() reports to onCellEditCancel; <<>> when it calls
\* no handler
cancelledCell(cell) == IF cancelHandlerRuns(cell) THEN cell ELSE <<>>

EditFrame ==
    /\ UNCHANGED <<stateVars, tableVars, unsubscribeAdapter, disconnectCalls,
                   unsubscribeCalls>>
    /\ LifeFrame

\* startCellEdit(rowId, columnId), called for a cell of a row the table holds
startCellEdit ==
    \E rowId \in RowIds, columnId \in EditColumns :
        /\ hasRow(data, rowId)
        /\ IF columnId \notin editableColumns
           THEN /\ UNCHANGED editingCell
                /\ last' = Op("startCellEdit.throws",
                              [cell |-> <<rowId, columnId>>, previous |-> editingCell,
                               cancelled |-> <<>>])
           ELSE /\ editingCell' = <<rowId, columnId>>
                /\ last' = Op("startCellEdit",
                              [cell |-> <<rowId, columnId>>, previous |-> editingCell,
                               cancelled |-> cancelledCell(editingCell)])
        /\ EditFrame

\* cancelCellEdit()
cancelCellEdit ==
    /\ editingCell' = <<>>
    /\ last' = Op("cancelCellEdit",
                  [cell |-> <<>>, previous |-> editingCell,
                   cancelled |-> cancelledCell(editingCell)])
    /\ EditFrame

\* saveCellEdit(rowId, columnId, newValue) of the cell in edit, up to
\* await this._adapter.update(...) inside this.update(rowId, updateData).
\* It throws when the row is gone or the table is destroyed; an unchanged
\* value cancels the edit.
saveCellEdit ==
    \E c \in DOMAIN calls, newValue \in Vals :
        /\ editingCell # <<>>
        /\ calls[c].pc = "idle"
        /\ LET rowId == editingCell[1]
               row   == getRow(data, rowId)
           IN  IF row = <<>> \/ (row[1].val # newValue /\ destroyed)
               THEN /\ last' = Op("saveCellEdit.throws",
                                  [cell |-> editingCell, previous |-> editingCell,
                                   cancelled |-> <<>>])
                    /\ UNCHANGED <<data, calls, editingCell>>
               ELSE IF row[1].val = newValue
               THEN /\ editingCell' = <<>>
                    /\ last' = Op("saveCellEdit",
                                  [cell |-> <<>>, previous |-> editingCell,
                                   cancelled |-> cancelledCell(editingCell)])
                    /\ UNCHANGED <<data, calls>>
               ELSE /\ data' = IF optimistic
                               THEN updateRow(data, rowId,
                                              Spread(row[1], [val |-> newValue]))
                               ELSE data
                    /\ calls' = [calls EXCEPT ![c] =
                                    [IdleCall EXCEPT !.op = "update", !.pc = "await",
                                                     !.id = rowId, !.val = newValue,
                                                     !.orig = row, !.before = data,
                                                     !.mid = data']]
                    /\ last' = Op("saveCellEdit.update",
                                  [cell |-> editingCell, previous |-> editingCell,
                                   cancelled |-> <<>>])
                    /\ UNCHANGED editingCell
        /\ DataOnly
        /\ CallFrame
        /\ UNCHANGED <<unsubscribeAdapter, disconnectCalls, unsubscribeCalls>>
        /\ LifeFrame

\* the update of saveCellEdit resolves: update() writes the row, then
\* saveCellEdit clears the editing state
saveCellEditResolved ==
    \E c \in DOMAIN calls :
        /\ calls[c].pc = "committed" /\ calls[c].op = "update"
        /\ data' = updateRow(data, calls[c].id, calls[c].res[1])
        /\ editingCell' = <<>>
        /\ calls' = [calls EXCEPT ![c] = IdleCall]
        /\ last' = Op("saveCellEdit.resolved", [slot |-> c])
        /\ DataOnly
        /\ CallFrame
        /\ UNCHANGED <<unsubscribeAdapter, disconnectCalls, unsubscribeCalls>>
        /\ LifeFrame

\* the update of saveCellEdit rejects: the catch blocks of update() and of
\* saveCellEdit; the cell stays in edit
saveCellEditRejected ==
    \E c \in DOMAIN calls :
        /\ calls[c].pc = "await" /\ calls[c].op = "update"
        /\ data' = updateRejectedData(data, calls[c].orig)
        /\ calls' = [calls EXCEPT ![c] = IdleCall]
        /\ last' = Op("saveCellEdit.rejected", [slot |-> c])
        /\ DataOnly
        /\ CallFrame
        /\ UNCHANGED lifeVars
        /\ LifeFrame

(***************************************************************************)
(* VirtualScrollManager                                                    *)
(*                                                                         *)
(* Heights and scroll positions are whole pixels.  scrollConfig is the     *)
(* manager's config; scrollState is its state record.  rowHeightCache maps *)
(* a row index to its measured height, 0 standing for "not measured":      *)
(* the code reads the cache as  get(i) || rowHeight , and the heights it   *)
(* stores are clamped to minRowHeight at least.                            *)
(***************************************************************************)
MaxItems  == 3     \* longest dataset handed to the manager
MaxScroll == 6     \* largest scrollTop the container reports

ItemIndexes == 0..(MaxItems - 1)

\* the constructor's defaults, in a scale where a row is 2 pixels high
DefaultScrollConfig ==
    [rowHeight |-> 2, containerHeight |-> 2, buffer |-> 1, overscan |-> TRUE,
     overscanCount |-> 1, dynamicHeight |-> FALSE, minRowHeight |-> 1,
     maxRowHeight |-> 3, scrollThreshold |-> 1]

\* the configurations a caller constructs the manager with
ScrollConfigs ==
    {[DefaultScrollConfig EXCEPT !.buffer = b, !.overscan = o,
                                 !.dynamicHeight = d] :
        b \in {0, 1}, o \in BOOLEAN, d \in BOOLEAN}

InitialScrollState ==
    [scrollTop |-> 0, startIndex |-> 0, endIndex |-> 0, totalItems |-> 0,
     visibleItems |-> 0, offsetTop |-> 0, offsetBottom |-> 0, totalHeight |-> 0,
     renderedItems |-> <<>>, rowHeightCache |-> [i \in ItemIndexes |-> 0]]

InitScroll(configs) ==
    /\ scrollConfig \in configs
    /\ scrollState = InitialScrollState

\* this.state.rowHeightCache.get(i) || this.config.rowHeight
heightOf(st, cfg, i) ==
    IF i \in ItemIndexes /\ st.rowHeightCache[i] # 0
    THEN st.rowHeightCache[i] ELSE cfg.rowHeight

\* the heights of rows from .. to-1 added up
RECURSIVE sumHeights(_, _, _, _)
sumHeights(st, cfg, from, to) ==
    IF from >= to THEN 0
    ELSE heightOf(st, cfg, from) + sumHeights(st, cfg, from + 1, to)

calculateDimensions(st, cfg) ==
    [st EXCEPT
        !.totalHeight  = IF cfg.dynamicHeight
                         THEN sumHeights(st, cfg, 0, st.totalItems)
                         ELSE st.totalItems * cfg.rowHeight,
        !.visibleItems = CeilDiv(cfg.containerHeight, cfg.rowHeight)]

\* the loop of findStartIndexForDynamicHeight
RECURSIVE findStartLoop(_, _, _, _)
findStartLoop(st, cfg, left, right) ==
    IF left < right
    THEN LET mid == (left + right) \div 2
         IN  IF sumHeights(st, cfg, 0, mid + 1) < st.scrollTop
             THEN findStartLoop(st, cfg, mid + 1, right)
             ELSE findStartLoop(st, cfg, left, mid)
    ELSE left

findStartIndexForDynamicHeight(st, cfg) ==
    findStartLoop(st, cfg, 0, st.totalItems - 1)

generateRenderedItems(startIndex, endIndex) ==
    [k \in 1..Max(0, endIndex - startIndex) |-> startIndex + k - 1]

updateVisibleRange(st, cfg) ==
    IF st.totalItems = 0
    THEN [st EXCEPT !.startIndex = 0, !.endIndex = 0, !.offsetTop = 0,
                    !.offsetBottom = 0, !.renderedItems = <<>>]
    ELSE LET startIndex == IF cfg.dynamicHeight
                           THEN findStartIndexForDynamicHeight(st, cfg)
                           ELSE st.scrollTop \div cfg.rowHeight
             offsetTop  == IF cfg.dynamicHeight
                           THEN sumHeights(st, cfg, 0, startIndex)
                           ELSE startIndex * cfg.rowHeight
             bufferedStartIndex == Max(0, startIndex - cfg.buffer)
             endIndex   == Min(st.totalItems,
                               startIndex + st.visibleItems + cfg.buffer
                                 + (IF cfg.overscan THEN cfg.overscanCount ELSE 0))
             offsetBottom == IF cfg.dynamicHeight
                             THEN sumHeights(st, cfg, endIndex, st.totalItems)
                             ELSE (st.totalItems - endIndex) * cfg.rowHeight
         IN  [st EXCEPT
                !.startIndex = bufferedStartIndex,
                !.endIndex = endIndex,
                !.offsetTop = offsetTop
                    - (IF bufferedStartIndex # startIndex
                       THEN (startIndex - bufferedStartIndex) * cfg.rowHeight
                       ELSE 0),
                !.offsetBottom = offsetBottom,
                !.renderedItems = generateRenderedItems(bufferedStartIndex, endIndex)]

\* calculateDimensions(); updateVisibleRange();
recalculate(st, cfg) == updateVisibleRange(calculateDimensions(st, cfg), cfg)

ScrollFrame ==
    UNCHANGED <<stateVars, tableVars, optVars, syncVars, lifeVars,
                conflictResolution, adapterData, advVars,
                engineVars>>

Scroll_initialize ==
    \E n \in 0..MaxItems :
        /\ scrollState' = recalculate([scrollState EXCEPT !.totalItems = n],
                                      scrollConfig)
        /\ last' = Op("initialize", NoArg)
        /\ UNCHANGED scrollConfig
        /\ ScrollFrame

\* the lengths the model reaches never differ by more than 100, so the
\* height cache is kept
Scroll_updateData ==
    \E n \in 0..MaxItems :
        /\ scrollState' = recalculate([scrollState EXCEPT !.totalItems = n],
                                      scrollConfig)
        /\ last' = Op("updateData", NoArg)
        /\ UNCHANGED scrollConfig
        /\ ScrollFrame

Scroll_handleScroll ==
    \E scrollTop \in 0..MaxScroll :
        /\ scrollState' =
              IF Abs(scrollTop - scrollState.scrollTop) < scrollConfig.scrollThreshold
              THEN scrollState
              ELSE updateVisibleRange([scrollState EXCEPT !.scrollTop = scrollTop],
                                      scrollConfig)
        /\ last' = Op("handleScroll", NoArg)
        /\ UNCHANGED scrollConfig
        /\ ScrollFrame

Scroll_updateContainerHeight ==
    \E height \in {2, 4} :
        /\ scrollConfig' = [scrollConfig EXCEPT !.containerHeight = height]
        /\ scrollState' = recalculate(scrollState, scrollConfig')
        /\ last' = Op("updateContainerHeight", NoArg)
        /\ ScrollFrame

setRowHeight(st, cfg, index, height) ==
    LET clampedHeight == Max(cfg.minRowHeight, Min(cfg.maxRowHeight, height))
        currentHeight == st.rowHeightCache[index]
    IN  IF ~cfg.dynamicHeight THEN st
        ELSE IF currentHeight # 0 /\ Abs(currentHeight - clampedHeight) < 2 THEN st
        ELSE recalculate([st EXCEPT !.rowHeightCache[index] = clampedHeight], cfg)

Scroll_setRowHeight ==
    \E index \in ItemIndexes, height \in 0..4 :
        /\ scrollState' = setRowHeight(scrollState, scrollConfig, index, height)
        /\ last' = Op("setRowHeight", NoArg)
        /\ UNCHANGED scrollConfig
        /\ ScrollFrame

Scroll_reset ==
    /\ scrollState' =
          recalculate([scrollState EXCEPT !.scrollTop = 0,
                          !.rowHeightCache = [i \in ItemIndexes |-> 0]],
                      scrollConfig)
    /\ last' = Op("reset", NoArg)
    /\ UNCHANGED scrollConfig
    /\ ScrollFrame

\* scrollToIndex(index, alignment), in half pixels: the 'center' alignment
\* halves the container and the row height, so the operator computes twice
\* the position the code returns.
Alignments == {"start", "center", "end", "auto"}

scrollToIndex(st, cfg, index, alignment) ==
    IF index < 0 \/ index >= st.totalItems
    THEN 2 * st.scrollTop
    ELSE LET itemTop    == IF cfg.dynamicHeight
                           THEN sumHeights(st, cfg, 0, index)
                           ELSE index * cfg.rowHeight
             itemHeight == IF cfg.dynamicHeight
                           THEN heightOf(st, cfg, index)
                           ELSE cfg.rowHeight
             itemBottom     == itemTop + itemHeight
             viewportTop    == st.scrollTop
             viewportBottom == viewportTop + cfg.containerHeight
             clamp(target2) ==
                Max(0, Min(2 * (st.totalHeight - cfg.containerHeight), target2))
         IN  CASE alignment = "start" -> clamp(2 * itemTop)
               [] alignment = "center" ->
                    clamp(2 * itemTop - cfg.containerHeight + itemHeight)
               [] alignment = "end" ->
                    clamp(2 * (itemTop + itemHeight - cfg.containerHeight))
               [] OTHER ->
                    IF itemTop < viewportTop THEN clamp(2 * itemTop)
                    ELSE IF itemBottom > viewportBottom
                    THEN clamp(2 * (itemBottom - cfg.containerHeight))
                    ELSE 2 * st.scrollTop

\* scrollToIndex only computes a position: the state is left alone
Scroll_scrollToIndex ==
    \E index \in -1..MaxItems, alignment \in Alignments :
        /\ last' = Op("scrollToIndex",
                      [index |-> index, alignment |-> alignment,
                       result2 |-> scrollToIndex(scrollState, scrollConfig,
                                                 index, alignment)])
        /\ UNCHANGED scrollVars
        /\ ScrollFrame

InitForScroll ==
    /\ InitState({DefaultPageSize})
    /\ InitTable({FALSE})
    /\ InitOpt
    /\ InitSync
    /\ InitLife
    /\ InitAdv
    /\ InitEngine
    /\ InitMemory
    /\ InitScroll(ScrollConfigs)
    /\ conflictResolution = "last-write-wins"
    /\ last = Op("init", NoArg)

NextScroll ==
    \/ Scroll_initialize
    \/ Scroll_updateData
    \/ Scroll_handleScroll
    \/ Scroll_updateContainerHeight
    \/ Scroll_setRowHeight
    \/ Scroll_reset

(***************************************************************************)
(* ReactiveTableState: sorting and pagination views                        *)
(*                                                                         *)
(* The views are functions of the data, the filters, the sorts and the     *)
(* pagination cursor.  Array.prototype.sort is stable; the comparator of   *)
(* applySorting walks the sorts in order and takes the first column on     *)
(* which the two rows differ.  Row ids are strings and compare by          *)
(* IdRank, their lexicographic order.                                      *)
(***************************************************************************)
MaxViewRows == 3     \* longest dataset the views are computed for
MaxSorts    == 2     \* longest sort list handed to the state

ViewIdSeq == <<"r1", "r2", "r3", "r4">>
IdRank(id) == CHOOSE i \in DOMAIN ViewIdSeq : ViewIdSeq[i] = id

\* the datasets the views are computed for
ViewData ==
    UNION {{[i \in 1..n |-> [id |-> ViewIdSeq[i], val |-> vs[i]]] :
               vs \in [1..n -> Vals]} : n \in 0..MaxViewRows}

SortDirections == {"asc", "desc"}
Sorts    == [column : {"val", "id"}, direction : SortDirections]
SortSeqs == UNION {[1..n -> Sorts] : n \in 0..MaxSorts}

\* a[sort.column] as a number: ids by their order as strings
SortKey(row, column) == IF column = "id" THEN IdRank(row.id) ELSE row[column]

\* the comparator of applySorting: negative, zero or positive
RECURSIVE compareRows(_, _, _)
compareRows(a, b, ss) ==
    IF ss = <<>> THEN 0
    ELSE LET aValue == SortKey(a, Head(ss).column)
             bValue == SortKey(b, Head(ss).column)
             comparison == IF aValue < bValue THEN 0 - 1
                           ELSE IF aValue > bValue THEN 1 ELSE 0
         IN  IF comparison # 0
             THEN IF Head(ss).direction = "asc" THEN comparison ELSE 0 - comparison
             ELSE compareRows(a, b, Tail(ss))

\* row put into an already sorted array behind every row that does not sort
\* after it: one step of a stable sort
RECURSIVE sortInsert(_, _, _)
sortInsert(sorted, row, ss) ==
    IF sorted = <<>> THEN <<row>>
    ELSE IF compareRows(sorted[Len(sorted)], row, ss) <= 0
    THEN Append(sorted, row)
    ELSE Append(sortInsert(SubSeq(sorted, 1, Len(sorted) - 1), row, ss),
                sorted[Len(sorted)])

RECURSIVE stableSort(_, _)
stableSort(d, ss) ==
    IF d = <<>> THEN <<>>
    ELSE sortInsert(stableSort(SubSeq(d, 1, Len(d) - 1), ss), d[Len(d)], ss)

applySorting(d, ss) == IF Len(ss) = 0 THEN d ELSE stableSort(d, ss)

sortedData == IF Len(sorts) = 0 THEN filteredData ELSE applySorting(filteredData, sorts)

\* s.slice(from, to), 0-based half-open as in JavaScript, for 0 <= from <= to
Slice(s, from, to) ==
    LET lo == IF from > Len(s) THEN Len(s) ELSE from
        hi == IF to > Len(s) THEN Len(s) ELSE to
    IN  IF hi <= lo THEN <<>> ELSE SubSeq(s, lo + 1, hi)

\* _paginatedData for a given pagination cursor
pageAt(page) == Slice(sortedData, page * pageSize, page * pageSize + pageSize)

paginatedData == pageAt(currentPage)

SortFrame ==
    /\ UNCHANGED <<data, loading, error, connected, filters, selectedRows,
                   currentPage, pageSize>>
    /\ StateFrame

addSort(ss, sort) == <<sort>>

State_addSort ==
    \E sort \in Sorts :
        /\ sorts' = addSort(sorts, sort)
        /\ last' = Op("addSort", NoArg)
        /\ SortFrame

State_removeSort ==
    \E columnId \in {"val", "id"} :
        /\ sorts' = SelectSeq(sorts, LAMBDA s : s.column # columnId)
        /\ last' = Op("removeSort", NoArg)
        /\ SortFrame

updateSort(ss, columnId, direction) ==
    IF \E i \in DOMAIN ss : ss[i].column = columnId
    THEN LET existingIndex ==
                 CHOOSE i \in DOMAIN ss :
                     /\ ss[i].column = columnId
                     /\ \A j \in 1..(i - 1) : ss[j].column # columnId
         IN  [ss EXCEPT ![existingIndex].direction = direction]
    ELSE addSort(ss, [column |-> columnId, direction |-> direction])

State_updateSort ==
    \E columnId \in {"val", "id"}, direction \in SortDirections :
        /\ sorts' = updateSort(sorts, columnId, direction)
        /\ last' = Op("updateSort", NoArg)
        /\ SortFrame

State_clearSorts ==
    /\ sorts' = <<>>
    /\ last' = Op("clearSorts", NoArg)
    /\ SortFrame

State_setSorts ==
    \E newSorts \in SortSeqs :
        /\ sorts' = newSorts
        /\ last' = Op("setSorts", NoArg)
        /\ SortFrame

\* the state after new ReactiveTableState(options) and one setData(rows)
InitForView ==
    /\ data \in ViewData
    /\ loading = FALSE
    /\ error = NoError
    /\ connected = FALSE
    /\ filters = <<>>
    /\ sorts = <<>>
    /\ selectedRows = {}
    /\ currentPage = 0
    /\ pageSize \in 1..MaxPage
    /\ InitTable({FALSE})
    /\ InitOpt
    /\ InitSync
    /\ InitLife
    /\ InitAdv
    /\ InitEngine
    /\ InitMemory
    /\ InitScroll({DefaultScrollConfig})
    /\ conflictResolution = "last-write-wins"
    /\ last = Op("setData", NoArg)

\* the view of a fixed dataset under filter, sort, pagination and selection
\* operations
NextView ==
    \/ State_selectRow
    \/ State_deselectRow
    \/ State_setPage
    \/ State_setPageSize
    \/ State_addFilter
    \/ State_removeFilter
    \/ State_updateFilter
    \/ State_clearFilters
    \/ State_setFilters
    \/ State_addSort
    \/ State_removeSort
    \/ State_updateSort
    \/ State_clearSorts
    \/ State_setSorts

(***************************************************************************)
(* MemoryAdapter.read and ReactiveTable.refresh                            *)
(***************************************************************************)
\* s.slice(start, end) as JavaScript computes it: a negative index counts
\* from the end of the array, and both indexes are clamped into 0..length
jsSlice(s, start, end) ==
    LET from == IF start < 0 THEN Max(Len(s) + start, 0) ELSE Min(start, Len(s))
        to   == IF end < 0 THEN Max(Len(s) + end, 0) ELSE Min(end, Len(s))
    IN  IF from < to THEN SubSeq(s, from + 1, to) ELSE <<>>

\* the adapter's applyFilters: every filter holds, by the same switch over
\* the operators as the state's matchesFilter
memoryApplyFilters(d, fs) ==
    SelectSeq(d, LAMBDA item :
        \A i \in DOMAIN fs : matchesFilter(Cell(item, fs[i].column), fs[i]))

\* the adapter's applySorting: a stable sort by one sort alone
memoryApplySorting(d, sort) == stableSort(d, <<sort>>)

\* the start of the page the adapter returns: pages are counted from 1
memoryStart(page, limit) == (page - 1) * limit

\* a start that counts the pages from 0
memoryStartZeroBased(page, limit) == page * limit

\* read(options) with filters, sorts and pagination given: only sorts[0] is
\* applied, and the defaults of page and limit are not used because both
\* are numbers
memoryRead(d, options) ==
    LET filtered == memoryApplyFilters(d, options.filters)
        sorted   == IF Len(options.sorts) > 0
                    THEN memoryApplySorting(filtered, options.sorts[1])
                    ELSE filtered
        start    == memoryStart(options.pagination.page, options.pagination.limit)
        end      == start + options.pagination.limit
    IN  jsSlice(sorted, start, end)

\* refresh(): setLoading(true), await adapter.read(...), setData, and
\* setLoading(false) in the finally block.  The in-memory read has no await
\* of its own and does not throw, so the call runs to its end in one step.
Table_refresh ==
    /\ ~destroyed
    /\ data' = memoryRead(adapterData,
                   [filters |-> filters, sorts |-> sorts,
                    pagination |-> [page |-> currentPage, limit |-> pageSize]])
    /\ loading' = FALSE
    /\ last' = Op("refresh", NoArg)
    /\ UNCHANGED <<error, connected, filters, sorts, selectedRows,
                   currentPage, pageSize>>
    /\ StateFrame

(***************************************************************************)
(* Specifications                                                          *)
(***************************************************************************)
\* the components a specification does not drive stay as constructed with
\* the default options
InitWith(sizes, flags, strategies) ==
    /\ InitState(sizes)
    /\ InitTable(flags)
    /\ InitOpt
    /\ InitSync
    /\ InitLife
    /\ InitAdv
    /\ InitEngine
    /\ InitMemory
    /\ InitScroll({DefaultScrollConfig})
    /\ conflictResolution \in strategies
    /\ last = Op("init", NoArg)

InitForState == InitWith(1..MaxPage, {FALSE}, {"last-write-wins"})

InitForTable == InitWith({DefaultPageSize}, BOOLEAN, {"last-write-wins"})

InitForOpt == InitWith({DefaultPageSize}, {FALSE}, Strategies)

InitForSync == InitWith({DefaultPageSize}, {FALSE}, Strategies)

NextState ==
    \/ State_setData
    \/ State_replaceData
    \/ State_addRow
    \/ State_updateRow
    \/ State_removeRow
    \/ State_selectRow
    \/ State_deselectRow
    \/ State_selectRows
    \/ State_selectAll
    \/ State_clearSelection
    \/ State_toggleRowSelection
    \/ State_setPage
    \/ State_setPageSize
    \/ State_nextPage
    \/ State_previousPage
    \/ State_goToFirstPage
    \/ State_goToLastPage
    \/ State_addFilter
    \/ State_removeFilter
    \/ State_updateFilter
    \/ State_clearFilters
    \/ State_setFilters

SpecState == InitForState /\ [][NextState]_vars

SpecTable == InitForTable /\ [][NextTable]_vars

SpecOpt == InitForOpt /\ [][NextOpt]_vars

\* a timer armed with setTimeout fires once its delay has passed, whatever
\* else the caller does meanwhile: weak fairness on the two timer callbacks
SpecOptLive ==
    /\ InitForOpt
    /\ [][NextOptLive]_vars
    /\ WF_vars(timeoutFires)
    /\ WF_vars(retryFires)

SpecSync == InitForSync /\ [][NextSync]_vars

\* RealtimeSync with forcSync calls, connected once and then left alone by
\* the connection listener
NextForce ==
    \/ forcSync
    \/ forcSyncResolved
    \/ forcSyncRejected
    \/ sync_initialize
    \/ sync_addOptimisticUpdate
    \/ handleRemoteChange
    \/ debounceFires
    \/ syncResolved
    \/ syncRejected

SpecForce == InitForSync /\ [][NextForce]_vars

SpecView == InitForView /\ [][NextView]_vars

SpecScroll == InitForScroll /\ [][NextScroll]_vars

InitForLife ==
    /\ InitState({DefaultPageSize})
    /\ InitTable({FALSE})
    /\ InitOpt
    /\ InitSync
    /\ InitLife
    /\ InitAdv
    /\ InitEngine
    /\ InitMemory
    /\ InitScroll({DefaultScrollConfig})
    /\ conflictResolution = "last-write-wins"
    /\ last = Op("init", NoArg)

NextLife ==
    \/ connect
    \/ connectResolved
    \/ readResolved
    \/ readRejected
    \/ Table_disconnect
    \/ disconnectResolved
    \/ disconnectRejected
    \/ Table_destroy
    \/ RemoteEvent
    \/ DeliverEvent
    \/ startCellEdit
    \/ cancelCellEdit
    \/ saveCellEdit
    \/ AdapterCommits
    \/ saveCellEditResolved
    \/ saveCellEditRejected

SpecLife == InitForLife /\ [][NextLife]_vars

InitForFilter ==
    /\ data \in AgeData
    /\ loading = FALSE
    /\ error = NoError
    /\ connected = FALSE
    /\ filters = <<>>
    /\ sorts = <<>>
    /\ selectedRows = {}
    /\ currentPage = 0
    /\ pageSize = FilterPageSize
    /\ InitTable({FALSE})
    /\ InitOpt
    /\ InitSync
    /\ InitLife
    /\ InitAdv
    /\ InitEngine
    /\ InitMemory
    /\ InitScroll({DefaultScrollConfig})
    /\ conflictResolution = "last-write-wins"
    /\ last = Op("setData", NoArg)

\* filters set through the orchestrator, global filters of the manager, and
\* the pagination cursor over the filtered view of a fixed dataset
NextFilter ==
    \/ Table_setFilter
    \/ State_clearFilters
    \/ State_setPage
    \/ addGlobalFilter
    \/ removeGlobalFilter
    \/ clearGlobalFilters

SpecFilter == InitForFilter /\ [][NextFilter]_vars

InitForEngine ==
    /\ data \in EngineData
    /\ loading = FALSE
    /\ error = NoError
    /\ connected = FALSE
    /\ filters = <<>>
    /\ sorts = <<>>
    /\ selectedRows = {}
    /\ currentPage = 0
    /\ pageSize = DefaultPageSize
    /\ InitTable({FALSE})
    /\ InitOpt
    /\ InitSync
    /\ InitLife
    /\ InitAdv
    /\ InitEngine
    /\ InitMemory
    /\ InitScroll({DefaultScrollConfig})
    /\ conflictResolution = "last-write-wins"
    /\ last = Op("setData", NoArg)

\* the engine over the data the table has loaded
NextEngine ==
    \/ triggerDataValidation
    \/ processQueue
    \/ processData
    \/ processDataSettles
    \/ Engine_destroy

SpecEngine == InitForEngine /\ [][NextEngine]_vars

\* conflicts queued by remote events and resolved by hand, among optimistic
\* updates and sync runs
NextConflict ==
    \/ sync_initialize
    \/ sync_addOptimisticUpdate
    \/ handleRemoteChange
    \/ debounceFires
    \/ syncResolved
    \/ syncRejected
    \/ sync_resolveConflict
    \/ resolveConflictResolved
    \/ resolveConflictRejected

SpecConflict == InitForSync /\ [][NextConflict]_vars

\* a conflict's local and remote rows, handed to the two merge functions
InitForMerge ==
    /\ InitState({DefaultPageSize})
    /\ InitTable({FALSE})
    /\ InitOpt
    /\ InitSync
    /\ InitLife
    /\ InitAdv
    /\ InitEngine
    /\ InitMemory
    /\ InitScroll({DefaultScrollConfig})
    /\ conflictResolution = "merge"
    /\ \E localData \in MergeLocalRows, remoteData \in MergeRemoteRows :
          last = Op("conflict", [localData |-> localData,
                                 remoteData |-> remoteData, merged |-> <<>>])

NextMerge ==
    \/ applyMergeData
    \/ applyMergeChanges

SpecMerge == InitForMerge /\ [][NextMerge]_vars

InitForDebounce == InitWith({DefaultPageSize}, {FALSE}, {"last-write-wins"})

\* bursts of optimistic updates under a clock, the debounce timer and the
\* sync runs it starts
NextDebounce ==
    \/ sync_initialize
    \/ Burst_addOptimisticUpdate
    \/ Sync_tick
    \/ debounceFiresOnTime
    \/ syncResolved
    \/ syncRejected

SpecDebounce == InitForDebounce /\ [][NextDebounce]_vars

\* bursts of updates, the sync runs and the retries of the runs that fail
NextRetry ==
    \/ sync_initialize
    \/ Burst_addOptimisticUpdate
    \/ debounceFires
    \/ syncRetryFires
    \/ syncResolved
    \/ syncRejected

SpecRetry == InitForDebounce /\ [][NextRetry]_vars

\* resolveConflict calls made one at a time
Queue_resolveConflict ==
    /\ sync.resolving = <<>>
    /\ sync_resolveConflict

\* the queue of optimistic updates under updates, remote events, conflict
\* resolutions and sync runs
InitForQueue == InitWith({DefaultPageSize}, {FALSE}, {"manual", "last-write-wins"})

NextQueue ==
    \/ sync_initialize
    \/ Queue_addOptimisticUpdate
    \/ Queue_handleRemoteChange
    \/ debounceFires
    \/ syncResolved
    \/ syncRejected
    \/ Queue_resolveConflict
    \/ resolveConflictResolved
    \/ resolveConflictRejected

SpecQueue == InitForQueue /\ [][NextQueue]_vars

\* a coordinator destroyed among its updates, sync runs and retries
NextDestroy ==
    \/ Destroy_initialize
    \/ Burst_addOptimisticUpdate
    \/ debounceFires
    \/ syncRetryFires
    \/ syncResolved
    \/ syncRejected
    \/ sync_destroy

SpecDestroy == InitForDebounce /\ [][NextDestroy]_vars

InitForCreate ==
    /\ InitState({DefaultPageSize})
    /\ InitTableCalls
    /\ InitOpt
    /\ InitSync
    /\ InitLife
    /\ InitAdv
    /\ InitEngine
    /\ InitMemory
    /\ InitScroll({DefaultScrollConfig})
    /\ conflictResolution = "last-write-wins"
    /\ last = Op("init", NoArg)

\* optimistic create() calls in flight together, under the clock
NextCreate ==
    \/ create
    \/ Tick
    \/ AdapterCommits
    \/ createResolved
    \/ createRejected

SpecCreate == InitForCreate /\ [][NextCreate]_vars

\* the manager scrolled, resized and asked for positions
NextScrollTo ==
    \/ Scroll_initialize
    \/ Scroll_updateData
    \/ Scroll_handleScroll
    \/ Scroll_setRowHeight
    \/ Scroll_scrollToIndex

\* the position asked for does not depend on the buffer or the overscan
InitForScrollTo ==
    /\ InitState({DefaultPageSize})
    /\ InitTable({FALSE})
    /\ InitOpt
    /\ InitSync
    /\ InitLife
    /\ InitAdv
    /\ InitEngine
    /\ InitMemory
    /\ InitScroll({[DefaultScrollConfig EXCEPT !.dynamicHeight = d] :
                      d \in BOOLEAN})
    /\ conflictResolution = "last-write-wins"
    /\ last = Op("init", NoArg)

SpecScrollTo == InitForScrollTo /\ [][NextScrollTo]_vars

(***************************************************************************)
(* Properties                                                              *)
(***************************************************************************)
\* number of occurrences of x in the sequence s
Count(s, x) == Cardinality({i \in DOMAIN s : s[i] = x})

\* number of rows of d with the given id
CountId(d, id) == Cardinality({i \in DOMAIN d : d[i].id = id})

\* C1: with optimistic enabled, when the adapter call of update(id, data) or
\* delete(id) rejects, the data array after the rejection equals the data
\* array immediately before the call (same rows, same order, same fields).
\* Checked for calls nothing else interfered with: the data array at the
\* rejection is still the one the optimistic apply left.
C1_RollbackRestoresData ==
    (/\ optimistic
     /\ last.op \in {"update.rejected", "delete.rejected"}
     /\ last.arg.clean)
    => data = last.arg.before

\* C2: when a remote update / delete event for row R, carrying the row in
\* rows (with or without data), is handled while an optimistic update of
\* type update / delete for R is pending, a ConflictEvent for R is created.
C2_ConflictDetected ==
    (/\ last.op = "handleRemoteChange"
     /\ last.arg.event.type \in {"update", "delete"}
     /\ last.arg.event.rows # <<>>
     /\ last.arg.hadPending \cap {"update", "delete"} # {})
    => last.arg.raised > 0

\* C3: every update id occurs in at most one of the buckets pending, failed,
\* conflicted, synced, and at most once inside that bucket.
C3_BucketsExclusive ==
    \A u \in UpdIds :
        Count(pending, u) + Count(failed, u) + Count(conflicted, u)
            + Count(synced, u) <= 1

\* the edges of the status state machine
StatusEdges ==
    {<<"pending", "syncing">>, <<"syncing", "synced">>, <<"syncing", "failed">>,
     <<"syncing", "conflicted">>, <<"failed", "pending">>,
     <<"conflicted", "pending">>}

\* C4: the status of an update only changes along pending->syncing,
\* syncing->synced, syncing->failed, syncing->conflicted, failed->pending and
\* conflicted->pending.
C4_StatusEdges ==
    [][\A u \in UpdIds :
          (upd[u].status # "none" /\ upd'[u].status # upd[u].status)
          => <<upd[u].status, upd'[u].status>> \in StatusEdges]_vars

\* C5: currentPage lies in [0, totalPages - 1] after every operation (page 0
\* is allowed when there are no pages at all).
C5_PageInRange ==
    currentPage >= 0 /\ currentPage <= Max(0, totalPages - 1)

\* C6: with optimistic enabled, once create(data) has resolved the data holds
\* no temp row of the call and exactly one row with the confirmed id, one row
\* more than before the call; and a confirmed id never occurs twice, whether
\* the adapter's create event is delivered before or after the resolution.
C6_CreateNotDuplicated ==
    optimistic =>
        /\ \A id \in NewIds : CountId(data, id) <= 1
        /\ last.op = "create.resolved" =>
              /\ CountId(data, last.arg.temp) = 0
              /\ CountId(data, last.arg.id) = 1
              /\ last.arg.clean => Len(data) = Len(last.arg.before) + 1

\* C7: once destroy() has run, no later step (the completion of a call that
\* was awaiting the adapter) changes data, loading or error.
C7_NoMutationAfterDestroy ==
    [][destroyed => (data' = data /\ loading' = loading /\ error' = error)]_vars

\* C8: an update the caller never marks synced, failed or conflicted and never
\* rolls back eventually is in the failed bucket with status failed and error
\* "Update timeout", and it is retried at most maxRetries times on the way.
C8_TimeoutEndsFailed ==
    /\ [](\A u \in UpdIds : upd[u].retryCount <= maxRetries)
    /\ \A u \in UpdIds :
          InSeq(pending, u) ~>
              (/\ InSeq(failed, u)
               /\ ~InSeq(pending, u)
               /\ upd[u].status = "failed"
               /\ upd[u].error = "Update timeout"
               /\ upd[u].retryCount = maxRetries)

\* C8 witness: a timeout has just moved an update, retried maxRetries times,
\* into the failed bucket
C8_Witness ==
    \E u \in UpdIds :
        /\ last.op = "timeoutFires"
        /\ InSeq(failed, u)
        /\ upd[u].status = "failed"
        /\ upd[u].error = "Update timeout"
        /\ upd[u].retryCount = maxRetries

\* C9: under last-write-wins, once a remote update event for row R has been
\* handled while a local optimistic update for R was pending, the change
\* applied carries the remote row, no update for R is left in the pending
\* queue, and an update discarded this way is never sent to the adapter
\* afterwards.
C9_LastWriteWinsDiscards ==
    conflictResolution = "last-write-wins" =>
        /\ (/\ last.op = "handleRemoteChange"
            /\ last.arg.event.type = "update"
            /\ "update" \in last.arg.hadPending)
           => /\ last.arg.applied # <<>>
              /\ \A i \in DOMAIN last.arg.applied :
                    last.arg.applied[i].rows = <<RemoteRow(EventRowId(last.arg.event))>>
              /\ \A i \in DOMAIN pendingUpdates :
                    pendingUpdates[i].data.id # EventRowId(last.arg.event)
        /\ last.op = "syncUpdate" => last.arg.uid \notin discarded

\* C10: a row id leaves the selection set only by clearSelection, or by
\* deselectRow / toggleRowSelection (of that id).
C10_SelectionPersists ==
    [][\A id \in RowIds :
          (id \in selectedRows /\ id \notin selectedRows')
          => last'.op \in {"clearSelection", "deselectRow", "toggleRowSelection"}]_vars

\* the filter, sort and pagination operations
ViewOps ==
    {"addFilter", "removeFilter", "updateFilter", "setFilters", "clearFilters",
     "addSort", "removeSort", "updateSort", "clearSorts", "setSorts",
     "setPage", "setPageSize"}

\* C11: filter, sort and pagination operations leave the selection set
\* unchanged, so a row selected before a filter excludes it from view is
\* still selected while the filter is active and after it is cleared.
C11_ViewOpsKeepSelection ==
    [][last'.op \in ViewOps => selectedRows' = selectedRows]_vars

\* C11 witness: a filter has just been added that excludes a selected row of
\* the data from the filtered view
C11_Witness ==
    /\ last.op = "addFilter"
    /\ \E id \in selectedRows : hasRow(data, id) /\ ~hasRow(filteredData, id)

\* the pages 0 .. n-1 concatenated in order
RECURSIVE pagesUpTo(_)
pagesUpTo(n) == IF n <= 0 THEN <<>> ELSE pagesUpTo(n - 1) \o pageAt(n - 1)

\* C12: for pageSize > 0 the pages 0 .. totalPages-1 concatenated in order are
\* exactly sortedData, which holds the rows of filteredData ordered by the
\* sorts; every page but the last holds pageSize rows and the last page holds
\* between 1 and pageSize rows.
C12_PaginationCovers ==
    pageSize > 0 =>
        /\ pagesUpTo(totalPages) = sortedData
        /\ Len(sortedData) = Len(filteredData)
        /\ \A i \in DOMAIN filteredData : Count(sortedData, filteredData[i]) = 1
        /\ \A i, j \in DOMAIN sortedData :
              i < j => compareRows(sortedData[i], sortedData[j], sorts) <= 0
        /\ \A p \in 0..(totalPages - 2) : Len(pageAt(p)) = pageSize
        /\ totalPages > 0 =>
              /\ Len(pageAt(totalPages - 1)) >= 1
              /\ Len(pageAt(totalPages - 1)) <= pageSize

\* C12 witness: filters and sorts are active, the sort reorders the filtered
\* rows, there are several pages and the cursor is on a shorter last page
C12_Witness ==
    /\ filters # <<>>
    /\ sorts # <<>>
    /\ sortedData # filteredData
    /\ totalPages >= 2
    /\ currentPage = totalPages - 1
    /\ Len(paginatedData) >= 1
    /\ Len(paginatedData) < pageSize

\* C13: when the adapter call made by create, update or delete rejects, the
\* catch block leaves state.error holding the message of the rejection (the
\* adapter of this model rejects with the message "network").
C13_RejectionSetsError ==
    last.op \in {"create.rejected", "update.rejected", "delete.rejected"}
        => error = "network"

\* the heights of the rendered rows added up
RECURSIVE renderedHeight(_)
renderedHeight(items) ==
    IF items = <<>> THEN 0
    ELSE heightOf(scrollState, scrollConfig, Head(items)) + renderedHeight(Tail(items))

\* C14: whenever scrollTop lies in [0, totalHeight - containerHeight], the
\* rendered window has endIndex - startIndex rows, and offsetTop, the heights
\* of the rendered rows and offsetBottom add up to totalHeight, in fixed-height
\* and in dynamic-height mode.
C14_WindowAccountsForHeight ==
    (/\ scrollState.scrollTop >= 0
     /\ scrollState.scrollTop <= scrollState.totalHeight - scrollConfig.containerHeight)
    => /\ Len(scrollState.renderedItems)
            = scrollState.endIndex - scrollState.startIndex
       /\ scrollState.offsetTop + renderedHeight(scrollState.renderedItems)
            + scrollState.offsetBottom = scrollState.totalHeight

\* C15: a failed update is retried only while its retryCount is below
\* maxRetries, retryCount never exceeds maxRetries, and the delay of a retry
\* that has just been scheduled is retryDelay * 2^n, n being the number of
\* retries already made for that update.
C15_RetryBackoff ==
    /\ \A u \in UpdIds : upd[u].retryCount <= maxRetries
    /\ (last.op \in {"markAsFailed", "timeoutFires"} /\ last.arg.delay > 0)
         => /\ upd[last.arg.uid].retryCount - 1 < maxRetries
            /\ last.arg.delay = retryDelay * 2 ^ retriesMade[last.arg.uid]

\* C16: after k consecutive failed connection attempts the next reconnect is
\* scheduled min(1000 * 2^k, 30000) ms later, so successive reconnect delays
\* double up to the 30 s cap: when the reconnect timer armed after a failed
\* attempt fires and the attempt it makes fails too, the delay of the next
\* reconnect is twice the delay that had just run out, capped at 30000 ms;
\* and an attempt that succeeds resets the counter.
C16_ReconnectBackoff ==
    [][/\ (/\ last'.op = "reconnectFires" /\ ~last'.arg.ok
           /\ sync.error = "listen" /\ ~sync.connected)
          => sync'.reconnectDelay = Min(2 * sync.reconnectDelay, 30000)
       /\ (last'.op \in {"initialize", "reconnectFires"} /\ last'.arg.ok)
          => sync'.retryCount = 0]_vars

\* C17: once a forcSync() call has completed, state.pendingUpdates and
\* state.conflicts are empty and state.syncing is false, whatever they held
\* before the call.
C17_ForceSyncClears ==
    (last.op = "forcSync" /\ last.arg.outcome \in {"done", "failed"})
        => /\ pendingUpdates = <<>>
           /\ conflicts = <<>>
           /\ ~sync.syncing

\* C18: destroy() is idempotent: a call on a table that is already destroyed
\* changes no state, and calls neither the adapter's disconnect nor the
\* subscription's unsubscribe again.
C18_DestroyIdempotent ==
    [][(destroyed /\ last'.op = "destroy")
          => /\ UNCHANGED <<stateVars, tableVars, lifeVars>>
             /\ disconnectCalls' = disconnectCalls
             /\ unsubscribeCalls' = unsubscribeCalls]_vars

\* a second destroy() has returned, after the first one unsubscribed and
\* disconnected
C18_Witness ==
    /\ last.op = "destroy" /\ last.arg.again
    /\ destroyed
    /\ disconnectCalls >= 1
    /\ unsubscribeCalls >= 1

\* C19: at most one cell is in edit; a startCellEdit(r2, c2) made while
\* another cell r1:c1 is in edit first cancels that edit, the cancel handler
\* running for r1:c1, and then r2:c2 is the cell in edit.
C19_StartCancelsPrevious ==
    last.op = "startCellEdit"
        => /\ editingCell = last.arg.cell
           /\ last.arg.previous # <<>> => last.arg.cancelled = last.arg.previous

\* C20: after connect() has resolved successfully state.connected is true,
\* and after disconnect() or destroy() it is false.
C20_ConnectedFollowsLifecycle ==
    /\ (last.op = "read.resolved" /\ last.arg.of = "connect") => connected
    /\ last.op \in {"disconnect.resolved", "destroy"} => ~connected


\* C21: a filter whose operator the evaluator does not know matches no row:
\* while such a filter is among the state's filters the filtered view is
\* empty, and while one is among the manager's global filters filterData
\* returns no row.
C21_UnknownOperatorMatchesNothing ==
    /\ (\E i \in DOMAIN filters : filters[i].operator \notin StateOperators)
          => filteredData = <<>>
    /\ (\E i \in DOMAIN globalFilters :
            globalFilters[i].operator \notin FilterOperator)
          => filterData(data) = <<>>


\* C22: a filter on a column that no row has matches no row, whatever its
\* operator: while such a filter is among the state's filters the filtered
\* view is empty, and while one is among the manager's global filters
\* filterData returns no row.
C22_MissingColumnMatchesNothing ==
    /\ (\E i \in DOMAIN filters : filters[i].column = "missing")
          => filteredData = <<>>
    /\ (\E i \in DOMAIN globalFilters : globalFilters[i].column = "missing")
          => filterData(data) = <<>>


\* C23: while the state's only filter is a greaterThan filter on the age
\* column (set through the orchestrator's setFilter), the filtered view holds
\* exactly the rows whose age is greater than the filter's value, in the order
\* of the data: ages 25, 35, 40 under value 30 give 35, 40.
C23_GreaterThanKeepsLarger ==
    (/\ Len(filters) = 1
     /\ filters[1].operator = "greaterThan"
     /\ filters[1].column = "age")
      => filteredData = SelectSeq(data, LAMBDA row : row.age > filters[1].value)


\* C24: every addFilter call (made through setFilter) leaves currentPage at 0
\* and a list with at most one filter per column, in which the filter just
\* added is present and the filters of the other columns are kept.
C24_OneFilterPerColumn ==
    [][last'.op = "setFilter" =>
          LET filter == last'.arg.filter
          IN  /\ currentPage' = 0
              /\ \A i, j \in DOMAIN filters' :
                    filters'[i].column = filters'[j].column => i = j
              /\ \E i \in DOMAIN filters' : filters'[i] = filter
              /\ \A i \in DOMAIN filters :
                    filters[i].column # filter.column
                        => \E j \in DOMAIN filters' : filters'[j] = filters[i]
      ]_vars

\* addFilter replaced the filter of a column, next to a filter of another
\* column, while the cursor was on a later page
C24_Witness ==
    /\ last.op = "setFilter"
    /\ last.arg.replaced
    /\ last.arg.page > 0
    /\ Len(filters) = 2

\* C25: setPage(page) with page below 0 or at least totalPages changes
\* nothing: with two pages, setPage(2) leaves currentPage and the rest of the
\* state as they were.
C25_SetPageOutOfRange ==
    [][(/\ last'.op = "setPage"
        /\ (last'.arg.page < 0 \/ last'.arg.page >= totalPages))
          => UNCHANGED <<stateVars, tableVars, optVars, syncVars, scrollVars,
                         lifeVars, advVars, engineVars, conflictResolution,
                adapterData>>
      ]_vars

\* setPage(2) was called on a view of two pages
C25_Witness ==
    /\ last.op = "setPage"
    /\ last.arg.page = 2
    /\ totalPages = 2


\* C26: addUpdate throws exactly when pending already holds maxPendingUpdates
\* updates, and a call that throws leaves the pending, failed, conflicted and
\* synced buckets, totalOperations and the timers as they were.
C26_AddUpdateAtLimit ==
    [][/\ last'.op = "addUpdate.throws" =>
            /\ Len(pending) >= maxPendingUpdates
            /\ UNCHANGED <<pending, failed, conflicted, synced,
                           totalOperations, timers>>
       /\ (last'.op = "addUpdate" /\ pending' # pending) =>
            Len(pending) < maxPendingUpdates
      ]_vars

\* addUpdate threw while the pending update's timeout timer was live
C26_Witness ==
    /\ last.op = "addUpdate.throws"
    /\ Len(pending) >= maxPendingUpdates
    /\ \E u \in UpdIds : timers[u] = "timeout"
    /\ totalOperations = 1


\* C27: when the engine validates data that has a row without an id or two
\* rows with the same id, through the queued task of triggerDataValidation or
\* through processData, the promise of the run resolves, the violation is
\* recorded in the error count, processData still enters all of its steps,
\* and state.data is left as it was.
C27_ValidationNeverThrows ==
    [][(/\ last'.op \in {"processQueue", "processData.settled"}
        /\ last'.arg.violation)
          => /\ last'.arg.promise = "resolved"
             /\ stats'.errorsCount = stats.errorsCount + 1
             /\ last'.op = "processData.settled"
                   => last'.arg.steps = Len(ProcessSteps)
             /\ data' = data
      ]_vars


\* C28: a remote update or delete event for a row that has a pending update
\* or delete leaves the queue of pending updates as it was and applies no
\* remote change, under first-write-wins and under manual; under manual the
\* conflict is appended to the conflicts; and a conflict queued under manual
\* stays in the conflicts through every step other than the completion of a
\* resolveConflict call made for it.
C28_ConflictKeptForResolution ==
    [][/\ (/\ last'.op = "handleRemoteChange"
           /\ last'.arg.event.type \in {"update", "delete"}
           /\ last'.arg.hadPending \cap {"update", "delete"} # {}
           /\ conflictResolution \in {"first-write-wins", "manual"})
             => /\ pendingUpdates' = pendingUpdates
                /\ last'.arg.applied = <<>>
                /\ Len(conflicts') = Len(conflicts) +
                      (IF conflictResolution = "manual" THEN 1 ELSE 0)
                /\ SubSeq(conflicts', 1, Len(conflicts)) = conflicts
       /\ conflictResolution = "manual"
             => \A i \in DOMAIN conflicts :
                    \/ \E j \in DOMAIN conflicts' : conflicts'[j].id = conflicts[i].id
                    \/ /\ last'.op = "resolveConflict.resolved"
                       /\ last'.arg.conflictId = conflicts[i].id
      ]_vars

\* what the merge resolution is to build from a local and a remote row
MergedFieldByField(localData, remoteData, merged) ==
    /\ merged.id = remoteData.id
    /\ \A key \in (DOMAIN localData) \ {"id"} :
          (key \notin DOMAIN remoteData \/ remoteData[key] = "null")
              => key \in DOMAIN merged /\ merged[key] = localData[key]
    /\ \A key \in (DOMAIN remoteData) \ {"id"} :
          remoteData[key] # "null"
              => /\ key \in DOMAIN merged
                 /\ merged[key] =
                      IF /\ isTimestampKey(key)
                         /\ key \in DOMAIN localData
                         /\ localData[key] # "null"
                         /\ getTime(localData[key]) > getTime(remoteData[key])
                      THEN localData[key]
                      ELSE remoteData[key]

\* C29: the row mergeData and mergeChanges build has the id of the remote row,
\* the local value of every field the remote row lacks or has as null, the
\* more recent value of a timestamp-like field both rows have, and the remote
\* value of every other field.
C29_MergeFieldByField ==
    last.op \in {"mergeData", "mergeChanges"}
        => MergedFieldByField(last.arg.localData, last.arg.remoteData,
                              last.arg.merged[1])


\* C30: the debounce timer calls performSync only debounceMs after the most
\* recent addOptimisticUpdate call, so a burst of calls less than debounceMs
\* apart gets one call, after its last update; on a connected coordinator
\* that is not syncing the call starts a run over all the pending updates;
\* and a run that completes has handed to syncUpdate every update that was
\* pending when it started and is pending still.
C30_BurstSyncedOnce ==
    [][/\ (sync.debounce /\ ~sync'.debounce)
             => /\ now = sync.lastCallAt + debounceMs
                /\ (sync.connected /\ ~sync.syncing /\ pendingUpdates # <<>>)
                      => /\ syncRun'.pc = "awaiting"
                         /\ syncRun'.atStart =
                               {pendingUpdates[i].uid : i \in DOMAIN pendingUpdates}
       /\ (/\ syncRun.pc = "awaiting"
           /\ last'.op = "performSync"
           /\ last'.arg.outcome = "done")
             => \A i \in DOMAIN pendingUpdates :
                    pendingUpdates[i].uid \in syncRun.atStart
                        => pendingUpdates[i].uid \in syncRun.sent
      ]_vars

\* C31: for every index, alignment and manager state, the scrollTop that
\* scrollToIndex returns lies in [0, max(0, totalHeight - containerHeight)].
C31_ScrollToIndexInRange ==
    last.op = "scrollToIndex"
    => /\ 0 <= last.arg.result2
       /\ last.arg.result2
             <= 2 * Max(0, scrollState.totalHeight - scrollConfig.containerHeight)

\* C32: performSync never removes from pendingUpdates an update it has not
\* handed to the adapter: when a sync run ends, every update that was in the
\* queue, the ones added or replaced while the run was awaiting the adapter
\* included, has been sent in that run or is still pending.
C32_SyncRemovesOnlySent ==
    [][(syncRun.pc = "awaiting" /\ last'.op = "performSync")
          => \A i \in DOMAIN pendingUpdates :
                \/ pendingUpdates[i].uid \in syncRun.sent
                \/ \E j \in DOMAIN pendingUpdates' :
                      pendingUpdates'[j].uid = pendingUpdates[i].uid
      ]_vars

\* C33: across sync runs, retries included, an update whose adapter call
\* has resolved is not handed to the adapter again.
C33_SentAtMostOnce ==
    [][last'.op = "syncUpdate" => last'.arg.uid \notin syncRun.delivered]_vars

\* C34: when the update of saveCellEdit(r1, c1, v) resolves while another
\* cell r2:c2 is in edit (startCellEdit was called during the await), the
\* editing cell is still r2:c2 afterwards.
C34_SaveClearsOnlyItsCell ==
    [][(/\ last'.op = "saveCellEdit.resolved"
        /\ editingCell # <<>>
        /\ editingCell[1] # calls[last'.arg.slot].id)
          => editingCell' = editingCell
      ]_vars

\* C35: every update in the pending bucket has an armed timer, its timeout
\* or its retry backoff; this includes the updates that resolveConflict and
\* autoResolveConflicts put back into pending.
C35_PendingHasTimer ==
    \A i \in DOMAIN pending : timers[pending[i]] \in {"timeout", "retry"}

\* C36: when an optimistic create() settles (resolves or rejects) while
\* another optimistic create() is in flight, the other call's temp row stays
\* in state.data, also when both calls took the same Date.now().
C36_SettleKeepsOtherTempRow ==
    [][last'.op \in {"create.resolved", "create.rejected"}
          => \A o \in DOMAIN calls :
                (/\ o # last'.arg.slot
                 /\ calls[o].op = "create"
                 /\ calls[o].pc \in {"await", "committed"}
                 /\ hasRow(data, calls[o].temp))
                    => hasRow(data', calls[o].temp)
      ]_vars

\* C37: after any sequence of addOptimisticUpdate calls, remote events,
\* conflict resolutions and sync runs, pendingUpdates holds at most one
\* update per record id.
C37_OneUpdatePerRecord ==
    \A i, j \in DOMAIN pendingUpdates :
        pendingUpdates[i].data.id = pendingUpdates[j].data.id => i = j

\* an update was added for a row that already had one queued, with a
\* conflict about the replaced update still awaiting resolution
C37_Witness ==
    /\ last.op = "addOptimisticUpdate"
    /\ last.arg.replaced
    /\ Len(pendingUpdates) = 1
    /\ conflicts # <<>>

\* C38: after any sequence of windowing operations the range satisfies
\* 0 <= start <= end <= item count and offsetTop, offsetBottom >= 0, also
\* when the data shrinks while scrollTop keeps its earlier value.
C38_RangeWithinItems ==
    /\ 0 <= scrollState.startIndex
    /\ scrollState.startIndex <= scrollState.endIndex
    /\ scrollState.endIndex <= scrollState.totalItems
    /\ scrollState.offsetTop >= 0
    /\ scrollState.offsetBottom >= 0

\* C39: after destroy() has returned, the coordinator makes no adapter
\* create, update or delete call: no update is handed to syncUpdate, also
\* when a sync run was in its loop or a sync-retry timer was armed at the
\* time of destroy.
C39_NoAdapterCallAfterDestroy ==
    [][sync.destroyed => last'.op # "syncUpdate"]_vars


\* a table connected to an in-memory adapter: connect() has read all the
\* adapter's rows into the state
InitForRefresh ==
    /\ adapterData \in ViewData
    /\ data = adapterData
    /\ loading = FALSE
    /\ error = NoError
    /\ connected = FALSE
    /\ filters = <<>>
    /\ sorts = <<>>
    /\ selectedRows = {}
    /\ currentPage = 0
    /\ pageSize \in 1..MaxPage
    /\ InitTable({FALSE})
    /\ InitOpt
    /\ InitSync
    /\ InitLife
    /\ InitAdv
    /\ InitEngine
    /\ InitScroll({DefaultScrollConfig})
    /\ conflictResolution = "last-write-wins"
    /\ last = Op("connect", NoArg)

\* refreshes between changes of the page, the page size, the filters and
\* the sorts, over a dataset the adapter keeps as it is
NextRefresh ==
    \/ State_setPage
    \/ State_setPageSize
    \/ State_setFilters
    \/ State_setSorts
    \/ Table_refresh

SpecRefresh == InitForRefresh /\ [][NextRefresh]_vars

\* C40: after refresh() resolves against the in-memory adapter, whose rows
\* have not changed, paginatedData is the currentPage-th page, counted from
\* 0, of the adapter's rows after the active filters and sorts; so a
\* refresh on page 0 of a dataset with rows left by the filters leaves a
\* page with rows.
C40_RefreshShowsCurrentPage ==
    [][last'.op = "refresh"
       => LET rows == applySorting(applyFilters(adapterData, filters), sorts)
          IN  /\ paginatedData'
                   = Slice(rows, currentPage * pageSize,
                           currentPage * pageSize + pageSize)
              /\ (currentPage = 0 /\ rows # <<>>) => paginatedData' # <<>>]_vars

====
